---- MODULE Spec2Model ----
(***************************************************************************)
(* A model of the blueprint compiler: the resolver loop of main() that     *)
(* turns parsed shape blocks into a Blueprint, the geometry operations     *)
(* (boundaries, translate, translate_to_origin, the i32 -> usize           *)
(* conversion) and the rasterizer (Edge::draw onto a Canvas).              *)
(*                                                                         *)
(* Points are records [x, y]; an Edge is [from, to, attr] where attr is    *)
(* the Vec<Attribute> of the source (a sequence of colours); a Shape is    *)
(* the sequence of its edges and a Blueprint the sequence of its shapes.   *)
(***************************************************************************)
EXTENDS Integers, Sequences, FiniteSets, TLC

VARIABLES
    pc,         \* position of main(): resolve, translate, convert, canvas, draw, write, done, exit, panic
    shapes,     \* the value returned by parser::parse: Seq of Seq of EdgeStart
    si,         \* index of the shape block the outer loop is at
    ei,         \* index of the (from, to) pair the inner loop is at
    nodes,      \* main.rs `nodes` of the current block
    edges,      \* main.rs `edges` of the current block
    points,     \* main.rs `points`: tag -> resolved point
    blueprint,  \* main.rs `blueprint`
    stderr,     \* the tag named by the fatal "#<tag> not found", or None
    canvas,     \* the Canvas being drawn on, or NoCanvas
    drawn,      \* number of edges of the blueprint already drawn
    calls,      \* the Canvas::set calls made by the most recent Edge::draw
    output,     \* the canvas handed to the image writer, or NoCanvas
    src,        \* the source text handed to parser::parse, a sequence of characters
    tokens,     \* parse: `tokens` after unwrap_or_default
    lexer_errors,   \* parse: number of errors returned by the lexer
    parser_errors,  \* parse: number of errors returned by the parser
    given,          \* the value a function under check was called on, or None
    reader,         \* the PpmImageReader of write_to_file, or None
    emitted,        \* the bytes the reads of the reader have returned so far
    ui              \* the state of the viewer's Blueprint widget, or None

mainVars == <<pc, shapes, si, ei, nodes, edges, points, blueprint, stderr,
              canvas, drawn, calls, output>>

textVars == <<src, tokens, lexer_errors, parser_errors>>

\* the image writer and the viewer
sideVars == <<reader, emitted, ui>>

\* what main() after parser::parse leaves alone
otherVars == <<textVars, given, sideVars>>

vars == <<mainVars, otherVars>>

----------------------------------------------------------------------------
(* Bounds of the model *)

\* most coordinates in a generated document
MaxCoords == 3
\* most shape blocks in a generated document
MaxShapes == 2
\* coordinates of a generated two-edge Blueprint<i32> lie in -1 .. MaxCoord
MaxCoord == 1
\* coordinates of a generated one-edge Blueprint<i32> lie in -1 .. MaxPix
MaxPix == 4

\* the (x, y) pairs a generated coordinate may carry
Pts == {<<-1, 2>>, <<3, 0>>}
\* the tag names a generated document may use
Tags == {"p0"}
None == "<none>"

----------------------------------------------------------------------------
(* Program constants *)

I32Max == 2147483647
I32Min == -I32Max - 1
PadMargin == 50

----------------------------------------------------------------------------
(* Small helpers *)

Min(a, b) == IF a <= b THEN a ELSE b
Max(a, b) == IF a >= b THEN a ELSE b
Abs(a) == IF a < 0 THEN -a ELSE a
Last(s) == s[Len(s)]

RECURSIVE Flatten(_)
Flatten(ss) == IF ss = <<>> THEN <<>> ELSE Head(ss) \o Flatten(Tail(ss))

RECURSIVE SumSeq(_)
SumSeq(s) == IF s = <<>> THEN 0 ELSE Head(s) + SumSeq(Tail(s))

----------------------------------------------------------------------------
(* Colours *)

Named(n) == [name |-> n]
Custom(r, g, b, a) == [name |-> "Custom", rgba |-> <<r, g, b, a>>]
Black == Named("Black")
White == Named("White")
Transparent == Named("Transparent")

as_rgba(c) ==
    CASE c.name = "Transparent" -> <<0, 0, 0, 0>>
      [] c.name = "White"       -> <<255, 255, 255, 255>>
      [] c.name = "Black"       -> <<0, 0, 0, 255>>
      [] c.name = "Red"         -> <<255, 0, 0, 255>>
      [] c.name = "Green"       -> <<0, 255, 0, 255>>
      [] c.name = "Blue"        -> <<0, 0, 255, 255>>
      [] c.name = "Yellow"      -> <<255, 255, 0, 255>>
      [] c.name = "Magenta"     -> <<255, 0, 255, 255>>
      [] c.name = "Cyan"        -> <<0, 255, 255, 255>>
      [] c.name = "Custom"      -> c.rgba

\* TryFrom<&str> for Color: Ok(colour) as <<colour>>, Err(()) as <<>>
try_from_str(value) ==
    CASE value = "transparent" -> <<Named("Transparent")>>
      [] value = "white"       -> <<Named("White")>>
      [] value = "black"       -> <<Named("Black")>>
      [] value = "red"         -> <<Named("Red")>>
      [] value = "green"       -> <<Named("Green")>>
      [] value = "blue"        -> <<Named("Blue")>>
      [] value = "yellow"      -> <<Named("Yellow")>>
      [] value = "magenta"     -> <<Named("Magenta")>>
      [] value = "cyan"        -> <<Named("Cyan")>>
      [] OTHER                 -> <<>>

\* #[default] of enum Color
ColorDefault == Black

----------------------------------------------------------------------------
(* Points, nodes, edges *)

Point(x, y) == [x |-> x, y |-> y]

\* Node::add / Point::add
add(p, dx, dy) == Point(p.x + dx, p.y + dy)

\* Edge::new
EdgeNew(x1, y1, x2, y2, color) ==
    [from |-> Point(x1, y1), to |-> Point(x2, y2), attr |-> <<color>>]

\* Edge::color
color(e) == IF e.attr = <<>> THEN Black ELSE Head(e.attr)

----------------------------------------------------------------------------
(* Parsed documents *)

Absolute(x, y, tag) == [kind |-> "Absolute", x |-> x, y |-> y, tag |-> tag]
Relative(x, y, tag) == [kind |-> "Relative", x |-> x, y |-> y, tag |-> tag]
Reference(tag) == [kind |-> "Reference", tag |-> tag]

NoAttributes == [k \in {} |-> ""]
EdgeStart(coord, attributes) == [coord |-> coord, attributes |-> attributes]

OptTags == Tags \cup {None}

CoordChoices ==
    {Absolute(p[1], p[2], t) : p \in Pts, t \in OptTags}
        \cup {Relative(p[1], p[2], t) : p \in Pts, t \in OptTags}
        \cup {Reference(t) : t \in Tags}

EdgeStartChoices == {EdgeStart(c, NoAttributes) : c \in CoordChoices}

\* block sizes of a document: at most MaxShapes blocks, at most MaxCoords coordinates
RECURSIVE LayoutsOf(_, _)
LayoutsOf(nblocks, ncoords) ==
    IF nblocks = 0 THEN {<<>>}
    ELSE {<<>>} \cup
         {<<n>> \o l : n \in 0..ncoords, l \in LayoutsOf(nblocks - 1, ncoords)}

DocLayouts == {l \in LayoutsOf(MaxShapes, MaxCoords) : SumSeq(l) <= MaxCoords}

\* cut the flat sequence f into blocks of the sizes in layout
RECURSIVE Cut(_, _)
Cut(f, layout) ==
    IF layout = <<>> THEN <<>>
    ELSE <<SubSeq(f, 1, Head(layout))>>
            \o Cut(SubSeq(f, Head(layout) + 1, Len(f)), Tail(layout))

\* d is a document of the generated family
GeneratedDoc(d) ==
    \E l \in DocLayouts : \E f \in [1..SumSeq(l) -> EdgeStartChoices] : d = Cut(f, l)

\* parser.rs test_parser: shape { @0,0 #p0 0,5 5,5 5,0 @#p0 }
ExampleRectangle ==
    <<<<EdgeStart(Absolute(0, 0, "p0"), NoAttributes),
        EdgeStart(Relative(0, 5, None), NoAttributes),
        EdgeStart(Relative(5, 5, None), NoAttributes),
        EdgeStart(Relative(5, 0, None), NoAttributes),
        EdgeStart(Reference("p0"), NoAttributes)>>>>

\* shape { @0,0 @1,5 #p0 } shape { @#p0 @2,2 }
ExampleTagOnLast ==
    <<<<EdgeStart(Absolute(0, 0, None), NoAttributes),
        EdgeStart(Absolute(1, 5, "p0"), NoAttributes)>>,
      <<EdgeStart(Reference("p0"), NoAttributes),
        EdgeStart(Absolute(2, 2, None), NoAttributes)>>>>

\* shape { @0,0 #p0 1,2 #p0 @#p0 3,0 }: the tag is bound again before it is referred to
ExampleRebound ==
    <<<<EdgeStart(Absolute(0, 0, "p0"), NoAttributes),
        EdgeStart(Relative(1, 2, "p0"), NoAttributes),
        EdgeStart(Reference("p0"), NoAttributes),
        EdgeStart(Relative(3, 0, None), NoAttributes)>>>>

\* shape { @0,0 #p0 @1,5 #p0 } shape { @#p0 @2,2 }: the tag is bound again by the last
\* coordinate of a shape
ExampleReboundOnLast ==
    <<<<EdgeStart(Absolute(0, 0, "p0"), NoAttributes),
        EdgeStart(Absolute(1, 5, "p0"), NoAttributes)>>,
      <<EdgeStart(Reference("p0"), NoAttributes),
        EdgeStart(Absolute(2, 2, None), NoAttributes)>>>>

ExampleDocs == {ExampleRectangle, ExampleTagOnLast, ExampleRebound, ExampleReboundOnLast}

----------------------------------------------------------------------------
(* The resolver: one iteration of the inner loop of main() *)

NoPoints == [t \in {} |-> Point(0, 0)]

\* HashMap::insert
insert(map, tag, p) ==
    [t \in DOMAIN map \cup {tag} |-> IF t = tag THEN p ELSE map[t]]

\* ResolveFrom with the literal of an Absolute coordinate transposed
ResolveFromTransposed(c, ns, pts) ==
    CASE c.kind = "Absolute" -> <<Point(c.y, c.x)>>
      [] c.kind = "Relative" ->
            IF ns = <<>> THEN <<Point(c.y, c.x)>> ELSE <<add(Last(ns), c.x, c.y)>>
      [] c.kind = "Reference" ->
            IF c.tag \in DOMAIN pts THEN <<pts[c.tag]>> ELSE <<>>

\* main.rs 31-48: the `from` coordinate; <<>> stands for the exit(1) branch
ResolveFrom(c, ns, pts) ==
    CASE c.kind = "Absolute" -> <<Point(c.x, c.y)>>
      [] c.kind = "Relative" ->
            IF ns = <<>> THEN <<Point(c.y, c.x)>> ELSE <<add(Last(ns), c.x, c.y)>>
      [] c.kind = "Reference" ->
            IF c.tag \in DOMAIN pts THEN <<pts[c.tag]>> ELSE <<>>

\* main.rs 31-48: the tag the `from` coordinate binds
FromTag(c) == IF c.kind = "Reference" THEN None ELSE c.tag

\* ResolveTo with the literal of an Absolute coordinate transposed
ResolveToTransposed(c, ns, pts) ==
    CASE c.kind = "Absolute" -> <<Point(c.y, c.x)>>
      [] c.kind = "Relative" ->
            IF ns = <<>> THEN <<Point(c.y, c.x)>> ELSE <<add(Last(ns), c.x, c.y)>>
      [] c.kind = "Reference" ->
            IF c.tag \in DOMAIN pts THEN <<pts[c.tag]>> ELSE <<>>

\* ResolveTo with a Reference resolved to the cursor instead of the tag's point
ResolveToCursor(c, ns, pts) ==
    CASE c.kind = "Absolute" -> <<Point(c.x, c.y)>>
      [] c.kind = "Relative" ->
            IF ns = <<>> THEN <<Point(c.y, c.x)>> ELSE <<add(Last(ns), c.x, c.y)>>
      [] c.kind = "Reference" ->
            IF c.tag \in DOMAIN pts THEN <<Last(ns)>> ELSE <<>>

\* ResolveTo with an unbound Reference defaulting to the origin instead of exiting
ResolveToOrigin(c, ns, pts) ==
    CASE c.kind = "Absolute" -> <<Point(c.x, c.y)>>
      [] c.kind = "Relative" ->
            IF ns = <<>> THEN <<Point(c.y, c.x)>> ELSE <<add(Last(ns), c.x, c.y)>>
      [] c.kind = "Reference" ->
            IF c.tag \in DOMAIN pts THEN <<pts[c.tag]>> ELSE <<Point(0, 0)>>

\* main.rs 55-67: the `to` coordinate; <<>> stands for the exit(1) branch
ResolveTo(c, ns, pts) ==
    CASE c.kind = "Absolute" -> <<Point(c.x, c.y)>>
      [] c.kind = "Relative" ->
            IF ns = <<>> THEN <<Point(c.y, c.x)>> ELSE <<add(Last(ns), c.x, c.y)>>
      [] c.kind = "Reference" ->
            IF c.tag \in DOMAIN pts THEN <<pts[c.tag]>> ELSE <<>>

\* AttrColor giving the default colour whatever the attributes
AttrColorAlwaysDefault(attr) == ColorDefault

\* main.rs 69-73: the colour of the edge from its originating node's attributes
AttrColor(attr) ==
    IF "color" \in DOMAIN attr
    THEN LET c == try_from_str(attr["color"])
         IN  IF c = <<>> THEN ColorDefault ELSE c[1]
    ELSE ColorDefault

----------------------------------------------------------------------------
(* Geometry: boundaries, translate, translate_to_origin, i32 -> usize *)

top_left(p, q) == Point(Min(p.x, q.x), Min(p.y, q.y))
bottom_right(p, q) == Point(Max(p.x, q.x), Max(p.y, q.y))

PointI32Max == Point(I32Max, I32Max)
PointI32Min == Point(I32Min, I32Min)
PointUsizeMin == Point(0, 0)

\* Bound for &Edge: <<top-left, bottom-right>>
EdgeBoundaries(e) ==
    <<Point(Min(e.from.x, e.to.x), Min(e.from.y, e.to.y)),
      Point(Max(e.from.x, e.to.x), Max(e.from.y, e.to.y))>>

\* Bound<i32> for an iterator: the fold, `acc` being the accumulator
RECURSIVE FoldEdges(_, _)
FoldEdges(es, acc) ==
    IF es = <<>> THEN acc
    ELSE LET b == EdgeBoundaries(Head(es))
         IN  FoldEdges(Tail(es), <<top_left(acc[1], b[1]), bottom_right(acc[2], b[2])>>)

\* ShapeBoundaries with the fold started from the origin instead of (MAX, MIN)
ShapeBoundariesFromOrigin(shape) == FoldEdges(shape, <<Point(0, 0), Point(0, 0)>>)

\* Bound<i32> for &Shape<i32>
ShapeBoundaries(shape) == FoldEdges(shape, <<PointI32Max, PointI32Min>>)

RECURSIVE FoldShapes(_, _)
FoldShapes(ss, acc) ==
    IF ss = <<>> THEN acc
    ELSE LET b == ShapeBoundaries(Head(ss))
         IN  FoldShapes(Tail(ss), <<top_left(acc[1], b[1]), bottom_right(acc[2], b[2])>>)

\* Bound<i32> for &Blueprint<i32>
boundaries(bp) == FoldShapes(bp, <<PointI32Max, PointI32Min>>)

\* Bound<usize>: the bottom-right corner, the fold starting from Point::<usize>::MIN
RECURSIVE FoldBottomRight(_, _)
FoldBottomRight(es, acc) ==
    IF es = <<>> THEN acc
    ELSE FoldBottomRight(Tail(es), bottom_right(acc, EdgeBoundaries(Head(es))[2]))

RECURSIVE FoldShapesBottomRight(_, _)
FoldShapesBottomRight(ss, acc) ==
    IF ss = <<>> THEN acc
    ELSE FoldShapesBottomRight(Tail(ss),
            bottom_right(acc, FoldBottomRight(Head(ss), PointUsizeMin)))

\* boundaries().1 of a Blueprint<usize>
boundaries_usize_1(bp) == FoldShapesBottomRight(bp, PointUsizeMin)

\* translate_point on coordinates that cannot go below zero
translate_point_clamped(p, dx, dy) == Point(Max(0, p.x + dx), Max(0, p.y + dy))

\* Translate for Point<i32>
translate_point(p, dx, dy) == Point(p.x + dx, p.y + dy)

\* Translate for Edge<i32>
translate_edge(e, dx, dy) ==
    [e EXCEPT !.from = translate_point(e.from, dx, dy),
              !.to = translate_point(e.to, dx, dy)]

\* Translate for Shape<i32>
translate_shape(shape, dx, dy) ==
    [k \in 1..Len(shape) |-> translate_edge(shape[k], dx, dy)]

\* Translate for Blueprint<i32>
translate(bp, dx, dy) ==
    [k \in 1..Len(bp) |-> translate_shape(bp[k], dx, dy)]

\* OriginShift without the negation of the top-left corner
OriginShiftNotNegated(bp) == Point(boundaries(bp)[1].x, boundaries(bp)[1].y)

\* the shift applied by Blueprint::translate_to_origin
OriginShift(bp) == Point(-(boundaries(bp)[1].x), -(boundaries(bp)[1].y))

\* Blueprint::translate_to_origin
translate_to_origin(bp) == translate(bp, OriginShift(bp).x, OriginShift(bp).y)

\* TryFrom<Point<i32>> for Point<usize>: TRUE when the conversion is Ok
PointTryFromOk(p) == ~(p.x < 0 \/ p.y < 0)

\* TryFrom<Blueprint<i32>> for Blueprint<usize>: TRUE when the conversion is Ok
BlueprintTryFromOk(bp) ==
    \A k \in 1..Len(bp) : \A j \in 1..Len(bp[k]) :
        PointTryFromOk(bp[k][j].from) /\ PointTryFromOk(bp[k][j].to)

----------------------------------------------------------------------------
(* Canvas.  `pixels` is the row-major Vec<Color> of the source, kept as the  *)
(* function from the indices that hold a colour other than White to that   *)
(* colour: Canvas::new fills the vector with White.                        *)

NoPixels == [i \in {} |-> White]

\* Canvas::new
CanvasNew(width, height) == [width |-> width, height |-> height, pixels |-> NoPixels]

\* no canvas created yet
NoCanvas == CanvasNew(0, 0)

\* the debug assertions of Canvas::set and Canvas::get
InBounds(c, x, y) == x < c.width /\ y < c.height

\* Canvas::set leaving a pixel that is already painted as it is
CanvasSetOnceOnly(c, x, y, col) ==
    LET i == x + y * c.width
    IN  [c EXCEPT !.pixels =
            IF col = White \/ i \in DOMAIN c.pixels
            THEN c.pixels
            ELSE [j \in DOMAIN c.pixels \cup {i} |-> IF j = i THEN col ELSE c.pixels[j]]]

\* Canvas::set (within bounds)
CanvasSet(c, x, y, col) ==
    LET i == x + y * c.width
    IN  [c EXCEPT !.pixels =
            IF col = White
            THEN [j \in DOMAIN c.pixels \ {i} |-> c.pixels[j]]
            ELSE [j \in DOMAIN c.pixels \cup {i} |-> IF j = i THEN col ELSE c.pixels[j]]]

\* Canvas::get (within bounds)
CanvasGet(c, x, y) ==
    LET i == x + y * c.width
    IN  IF i \in DOMAIN c.pixels THEN c.pixels[i] ELSE White

\* pad with the two margins exchanged in the offset of the copy
padMarginsExchanged(c, horizontal, vertical) ==
    LET w == c.width + 2 * horizontal
    IN  [width |-> w,
         height |-> c.height + 2 * vertical,
         pixels |->
            [i \in {(j % c.width) + vertical + ((j \div c.width) + horizontal) * w :
                        j \in DOMAIN c.pixels}
                |-> LET x == (i % w) - vertical
                        y == (i \div w) - horizontal
                    IN  c.pixels[x + y * c.width]]]

\* Canvas::pad
pad(c, horizontal, vertical) ==
    LET w == c.width + 2 * horizontal
    IN  [width |-> w,
         height |-> c.height + 2 * vertical,
         pixels |->
            [i \in {(j % c.width) + horizontal + ((j \div c.width) + vertical) * w :
                        j \in DOMAIN c.pixels}
                |-> LET x == (i % w) - horizontal
                        y == (i \div w) - vertical
                    IN  c.pixels[x + y * c.width]]]

----------------------------------------------------------------------------
(* Rasterizer: Edge::draw as the sequence of Canvas::set calls it makes.   *)
(* The f32 arithmetic is modelled by exact rationals n / d; the two agree  *)
(* for every pair of endpoints with coordinates up to 12.                  *)

\* `as usize` of the float n / d: truncation toward zero, saturating at 0
AsUsize(n, d) ==
    LET nn == IF d < 0 THEN -n ELSE n
        dd == Abs(d)
    IN  IF nn <= 0 THEN 0 ELSE nn \div dd

\* VerticalCalls starting the run at from.y instead of the smaller y
VerticalCallsFromY(e, col) ==
    LET dy == e.to.y - e.from.y
    IN  [k \in 1..(Abs(dy) + 1) |-> <<e.from.x, e.from.y + (k - 1), col>>]

\* domain.rs 304-310: the branch dx = 0
VerticalCalls(e, col) ==
    LET dy == e.to.y - e.from.y
        start_y == Min(e.from.y, e.to.y)
    IN  [k \in 1..(Abs(dy) + 1) |-> <<e.from.x, start_y + (k - 1), col>>]

\* ForwardCalls rounding y to the nearest row instead of truncating it
ForwardCallsRounded(e, col) ==
    LET dx == e.to.x - e.from.x
        dy == e.to.y - e.from.y
    IN  [k \in 1..(dx + 1) |->
            LET step == k - 1
            IN  <<e.from.x + step,
                  AsUsize(2 * (e.from.y * dx + step * dy) + dx, 2 * dx), col>>]

\* domain.rs 314-319: the branch dx > 0; from.y + step * (dy / dx)
ForwardCalls(e, col) ==
    LET dx == e.to.x - e.from.x
        dy == e.to.y - e.from.y
    IN  [k \in 1..(dx + 1) |->
            LET step == k - 1
            IN  <<e.from.x + step, AsUsize(e.from.y * dx + step * dy, dx), col>>]

\* BackwardCalls adding the slope product as the branch dx > 0 does
BackwardCallsAdding(e, col) ==
    LET dx == e.to.x - e.from.x
        dy == e.to.y - e.from.y
    IN  [k \in 1..(Abs(dx) + 1) |->
            LET x == k - 1
            IN  <<e.from.x - x, AsUsize(e.from.y * dx + x * dy, dx), col>>]

\* domain.rs 320-325: the branch dx < 0; from.y - x * (dy / dx)
BackwardCalls(e, col) ==
    LET dx == e.to.x - e.from.x
        dy == e.to.y - e.from.y
    IN  [k \in 1..(Abs(dx) + 1) |->
            LET x == k - 1
            IN  <<e.from.x - x, AsUsize(e.from.y * dx - x * dy, dx), col>>]

\* DrawCalls returning early for the Transparent variant only
DrawCallsNamedOnly(e) ==
    LET col == color(e)
        dx == e.to.x - e.from.x
    IN  IF col = Transparent THEN <<>>
        ELSE IF dx = 0 THEN VerticalCalls(e, col)
        ELSE IF dx > 0 THEN ForwardCalls(e, col)
        ELSE BackwardCalls(e, col)

\* Draw for Edge<usize>
DrawCalls(e) ==
    LET col == color(e)
        dx == e.to.x - e.from.x
    IN  IF as_rgba(col)[4] = 0 THEN <<>>
        ELSE IF dx = 0 THEN VerticalCalls(e, col)
        ELSE IF dx > 0 THEN ForwardCalls(e, col)
        ELSE BackwardCalls(e, col)

\* the canvas after the calls cs, each within bounds
RECURSIVE ApplyCalls(_, _)
ApplyCalls(c, cs) ==
    IF cs = <<>> THEN c
    ELSE ApplyCalls(CanvasSet(c, Head(cs)[1], Head(cs)[2], Head(cs)[3]), Tail(cs))

\* the calls of cs up to and including the first one whose assertion fires
RECURSIVE UntilPanic(_, _)
UntilPanic(c, cs) ==
    IF cs = <<>> THEN <<>>
    ELSE IF ~InBounds(c, Head(cs)[1], Head(cs)[2]) THEN <<Head(cs)>>
    ELSE <<Head(cs)>> \o UntilPanic(c, Tail(cs))

\* CanvasFor without the + 1 on width and height
CanvasForTight(bp) ==
    LET b1 == boundaries_usize_1(bp)
    IN  CanvasNew(b1.x, b1.y)

\* main.rs 92-93: the canvas sized from the bottom-right corner of the bounding box
CanvasFor(bp) ==
    LET b1 == boundaries_usize_1(bp)
    IN  CanvasNew(b1.x + 1, b1.y + 1)

----------------------------------------------------------------------------
(* main(): the resolver loop *)

Resolving == pc = "resolve" /\ si <= Len(shapes)
Block == shapes[si]

\* SkipEmptyShape pushing an empty Shape for the empty block
SkipEmptyShapePushing ==
    /\ Resolving
    /\ Block = <<>>
    /\ si' = si + 1
    /\ blueprint' = Append(blueprint, <<>>)
    /\ pc' = IF si + 1 > Len(shapes) THEN "translate" ELSE "resolve"
    /\ UNCHANGED <<shapes, ei, nodes, edges, points, stderr,
                   canvas, drawn, calls, output>>
    /\ UNCHANGED otherVars

\* main.rs 19-21: an empty block is skipped, no Shape is pushed for it
SkipEmptyShape ==
    /\ Resolving
    /\ Block = <<>>
    /\ si' = si + 1
    /\ pc' = IF si + 1 > Len(shapes) THEN "translate" ELSE "resolve"
    /\ UNCHANGED <<shapes, ei, nodes, edges, points, blueprint, stderr,
                   canvas, drawn, calls, output>>
    /\ UNCHANGED otherVars

\* the points map after the `from` coordinate of the pair has been resolved to p
PointsAfterFrom(c, p, pts) ==
    IF FromTag(c) # None THEN insert(pts, FromTag(c), p) ELSE pts

\* main.rs 26-82: one iteration of the inner loop, both coordinates resolve
ResolveEdge ==
    /\ Resolving
    /\ Block # <<>>
    /\ ei < Len(Block)
    /\ LET c1 == Block[ei].coord
           c2 == Block[ei + 1].coord
           from == ResolveFrom(c1, nodes, points)
       IN  /\ from # <<>>
           /\ LET nodes1 == Append(nodes, from[1])
                  points1 == PointsAfterFrom(c1, from[1], points)
                  to == ResolveTo(c2, nodes1, points1)
              IN  /\ to # <<>>
                  /\ nodes' = nodes1
                  /\ points' = points1
                  /\ edges' = Append(edges,
                        EdgeNew(from[1].x, from[1].y, to[1].x, to[1].y,
                                AttrColor(Block[ei].attributes)))
    /\ ei' = ei + 1
    /\ UNCHANGED <<pc, shapes, si, blueprint, stderr, canvas, drawn, calls, output>>
    /\ UNCHANGED otherVars

\* main.rs 41-47 and 63-66: a Reference to an unbound tag prints it and exits
ResolveExit ==
    /\ Resolving
    /\ Block # <<>>
    /\ ei < Len(Block)
    /\ LET c1 == Block[ei].coord
           c2 == Block[ei + 1].coord
           from == ResolveFrom(c1, nodes, points)
       IN  IF from = <<>>
           THEN /\ stderr' = c1.tag
                /\ UNCHANGED <<nodes, points>>
           ELSE LET nodes1 == Append(nodes, from[1])
                    points1 == PointsAfterFrom(c1, from[1], points)
                IN  /\ ResolveTo(c2, nodes1, points1) = <<>>
                    /\ stderr' = c2.tag
                    /\ nodes' = nodes1
                    /\ points' = points1
    /\ pc' = "exit"
    /\ UNCHANGED <<shapes, si, ei, edges, blueprint, canvas, drawn, calls, output>>
    /\ UNCHANGED otherVars

\* main.rs 84 (and 23-24 for the next block): the block's edges become a Shape
PushShape ==
    /\ Resolving
    /\ Block # <<>>
    /\ ei >= Len(Block)
    /\ blueprint' = Append(blueprint, edges)
    /\ si' = si + 1
    /\ ei' = 1
    /\ nodes' = <<>>
    /\ edges' = <<>>
    /\ pc' = IF si + 1 > Len(shapes) THEN "translate" ELSE "resolve"
    /\ UNCHANGED <<shapes, points, stderr, canvas, drawn, calls, output>>
    /\ UNCHANGED otherVars

----------------------------------------------------------------------------
(* main(): translate, convert, draw, pad, write *)

\* main.rs 87
TranslateToOrigin ==
    /\ pc = "translate"
    /\ blueprint' = translate_to_origin(blueprint)
    /\ pc' = "convert"
    /\ UNCHANGED <<shapes, si, ei, nodes, edges, points, stderr, canvas, drawn,
                   calls, output>>
    /\ UNCHANGED otherVars

\* main.rs 88: the conversion to Blueprint<usize>, unwrap panics on Err
Convert ==
    /\ pc = "convert"
    /\ pc' = IF BlueprintTryFromOk(blueprint) THEN "canvas" ELSE "panic"
    /\ UNCHANGED <<shapes, si, ei, nodes, edges, points, blueprint, stderr,
                   canvas, drawn, calls, output>>
    /\ UNCHANGED otherVars

\* main.rs 90-93
NewCanvas ==
    /\ pc = "canvas"
    /\ canvas' = CanvasFor(blueprint)
    /\ drawn' = 0
    /\ pc' = "draw"
    /\ UNCHANGED <<shapes, si, ei, nodes, edges, points, blueprint, stderr,
                   calls, output>>
    /\ UNCHANGED otherVars

\* main.rs 94: Blueprint::draw and Shape::draw, one Edge::draw per step;
\* a Canvas::set outside the canvas fires its assertion
DrawEdge ==
    /\ pc = "draw"
    /\ drawn < Len(Flatten(blueprint))
    /\ LET cs == DrawCalls(Flatten(blueprint)[drawn + 1])
           ok == \A k \in 1..Len(cs) : InBounds(canvas, cs[k][1], cs[k][2])
       IN  IF ok
           THEN /\ calls' = cs
                /\ canvas' = ApplyCalls(canvas, cs)
                /\ pc' = "draw"
           ELSE /\ calls' = UntilPanic(canvas, cs)
                /\ canvas' = ApplyCalls(canvas, SubSeq(calls', 1, Len(calls') - 1))
                /\ pc' = "panic"
    /\ drawn' = drawn + 1
    /\ UNCHANGED <<shapes, si, ei, nodes, edges, points, blueprint, stderr, output>>
    /\ UNCHANGED otherVars

\* main.rs 96-100: the canvas is padded and handed to the image writer
PadAndWrite ==
    /\ pc = "draw"
    /\ drawn = Len(Flatten(blueprint))
    /\ output' = pad(canvas, PadMargin, PadMargin)
    /\ pc' = "done"
    /\ UNCHANGED <<shapes, si, ei, nodes, edges, points, blueprint, stderr,
                   canvas, drawn, calls>>
    /\ UNCHANGED otherVars

----------------------------------------------------------------------------
(* Specifications *)

\* parser::parse is not part of the run
NoText ==
    /\ src = <<>>
    /\ tokens = <<>>
    /\ lexer_errors = 0
    /\ parser_errors = 0

\* neither the image writer nor the viewer is part of the run
SidesIdle ==
    /\ reader = None
    /\ emitted = <<>>
    /\ ui = None

OthersIdle == NoText /\ given = None /\ SidesIdle

\* main() on a parsed document
Init ==
    /\ \/ GeneratedDoc(shapes)
       \/ shapes \in ExampleDocs
    /\ pc = IF shapes = <<>> THEN "translate" ELSE "resolve"
    /\ si = 1
    /\ ei = 1
    /\ nodes = <<>>
    /\ edges = <<>>
    /\ points = NoPoints
    /\ blueprint = <<>>
    /\ stderr = None
    /\ canvas = NoCanvas
    /\ drawn = 0
    /\ calls = <<>>
    /\ output = NoCanvas
    /\ OthersIdle

Next ==
    \/ SkipEmptyShape
    \/ ResolveEdge
    \/ ResolveExit
    \/ PushShape
    \/ TranslateToOrigin
    \/ Convert
    \/ NewCanvas
    \/ DrawEdge
    \/ PadAndWrite

Spec == Init /\ [][Next]_vars

\* the drawing stages of main() on a Blueprint<i32>: translate_to_origin, the
\* conversion to usize, the canvas sized from the bounding box, Blueprint::draw
RenderLayouts == {<<>>, <<0>>, <<1>>, <<0, 1>>, <<2>>, <<1, 1>>}

PointsIn(lo, hi) == {Point(x, y) : x \in lo..hi, y \in lo..hi}

EdgeColors == {Black, Transparent, Custom(10, 20, 30, 0), Custom(10, 20, 30, 40)}

\* edges of the two-edge family: every pair of endpoints of the small grid, Black
PairEdges ==
    {[from |-> p, to |-> q, attr |-> <<Black>>] :
        p \in PointsIn(-1, MaxCoord), q \in PointsIn(-1, MaxCoord)}

\* edges of the one-edge family: every direction and slope of the larger grid
SingleEdges ==
    {[from |-> p, to |-> q, attr |-> <<c>>] :
        p \in PointsIn(-1, MaxPix), q \in PointsIn(-1, MaxPix), c \in EdgeColors}

InitRender ==
    /\ shapes = <<>>
    /\ pc = "translate"
    /\ si = 1
    /\ ei = 1
    /\ nodes = <<>>
    /\ edges = <<>>
    /\ points = NoPoints
    /\ \/ \E l \in RenderLayouts : \E f \in [1..SumSeq(l) -> PairEdges] :
            blueprint = Cut(f, l)
       \/ \E e \in SingleEdges : blueprint = <<<<e>>>>
    /\ stderr = None
    /\ canvas = NoCanvas
    /\ drawn = 0
    /\ calls = <<>>
    /\ output = NoCanvas
    /\ OthersIdle

NextRender ==
    \/ TranslateToOrigin
    \/ Convert
    \/ NewCanvas
    \/ DrawEdge
    \/ PadAndWrite

SpecRender == InitRender /\ [][NextRender]_vars

----------------------------------------------------------------------------
(* Properties of the resolver, checked under Spec *)

\* the blueprint still holds the points as resolved (translate_to_origin has not run)
BeforeTranslate == pc \in {"resolve", "translate", "exit"}

\* the blocks the outer loop has finished
PushedBlocks == {b \in 1..Len(shapes) : b < si}

\* the position in the blueprint of the Shape pushed for the non-empty block b
ShapeIndexOf(b) == Cardinality({j \in 1..b : shapes[j] # <<>>})

ShapeOf(b) == blueprint[ShapeIndexOf(b)]

CoordAt(b, k) == shapes[b][k].coord

\* the point the k-th coordinate of the finished block b (of two coordinates or
\* more) was resolved to, read from the edges of its Shape
ResolvedAt(b, k) ==
    IF k < Len(shapes[b]) THEN ShapeOf(b)[k].from ELSE ShapeOf(b)[k - 1].to

AllAbsolute(b) == \A k \in 1..Len(shapes[b]) : CoordAt(b, k).kind = "Absolute"

\* the k-th coordinate of block b carries the tag t (only Absolute and Relative can)
Carries(b, k, t) == CoordAt(b, k).kind # "Reference" /\ CoordAt(b, k).tag = t

\* C1: a block of N >= 2 Absolute coordinates yields a Shape of exactly N-1 edges,
\* edge k going from the k-th coordinate to the (k+1)-th, in document order.
C1_AbsoluteChain ==
    BeforeTranslate =>
        \A b \in PushedBlocks :
            (Len(shapes[b]) >= 2 /\ AllAbsolute(b)) =>
                /\ Len(ShapeOf(b)) = Len(shapes[b]) - 1
                /\ \A k \in 1..(Len(shapes[b]) - 1) :
                    /\ ShapeOf(b)[k].from = Point(CoordAt(b, k).x, CoordAt(b, k).y)
                    /\ ShapeOf(b)[k].to = Point(CoordAt(b, k + 1).x, CoordAt(b, k + 1).y)

\* a document of one block of three Absolute coordinates has been resolved
C1_Witness ==
    /\ pc = "translate"
    /\ Len(shapes) = 1
    /\ Len(shapes[1]) = 3
    /\ AllAbsolute(1)
    /\ Len(blueprint) = 1
    /\ Len(blueprint[1]) = 2

\* C2: a Relative coordinate (dx, dy) resolves to cursor + (dx, dy), the cursor being
\* the previously resolved point of its shape and the origin for the first coordinate,
\* so that a Relative (dx, dy) opening a shape resolves to the point (dx, dy).
C2_RelativeFromCursor ==
    BeforeTranslate =>
        \A b \in PushedBlocks :
            Len(shapes[b]) >= 2 =>
                \A k \in 1..Len(shapes[b]) :
                    CoordAt(b, k).kind = "Relative" =>
                        ResolvedAt(b, k) =
                            add(IF k = 1 THEN Point(0, 0) ELSE ResolvedAt(b, k - 1),
                                CoordAt(b, k).x, CoordAt(b, k).y)

\* the position in its block of the Reference that made the resolver exit
FailedAt == Len(nodes) + 1

\* C3: every tagged Absolute or Relative coordinate binds its tag, whatever its position
\* in its shape, so that a later Reference to the tag resolves instead of failing: the
\* resolver never exits on a tag that an earlier coordinate of the document carries.
C3_EveryTagBinds ==
    pc = "exit" =>
        /\ \A b \in PushedBlocks : \A k \in 1..Len(shapes[b]) : ~Carries(b, k, stderr)
        /\ \A k \in 1..(FailedAt - 1) : ~Carries(si, k, stderr)

\* the latest coordinate before position k of block b that carries the tag t
LatestCarrier(b, k, t) ==
    CHOOSE j \in 1..(k - 1) :
        /\ Carries(b, j, t)
        /\ \A i \in (j + 1)..(k - 1) : ~Carries(b, i, t)

\* C4: a Reference @#t resolves to exactly the point the tag t was bound to: in a shape
\* whose first coordinate is tagged t and whose last is @#t, t not rebound in between,
\* the last edge ends where the first edge starts, and the five-node source
\* shape { @0,0 #p0 0,5 5,5 5,0 @#p0 } yields one shape of 4 edges.
C4_ReferenceResolvesToBinding ==
    /\ shapes = ExampleRectangle =>
            /\ pc # "exit"
            /\ pc = "translate" =>
                    /\ Len(blueprint) = 1
                    /\ Len(blueprint[1]) = 4
                    /\ blueprint[1][4].to = blueprint[1][1].from
    /\ BeforeTranslate =>
            \A b \in PushedBlocks :
                LET n == Len(shapes[b])
                IN  n >= 2 =>
                        /\ \A t \in Tags :
                            ( /\ Carries(b, 1, t)
                              /\ CoordAt(b, n) = Reference(t)
                              /\ \A i \in 2..(n - 1) : ~Carries(b, i, t) )
                                => ShapeOf(b)[n - 1].to = ShapeOf(b)[1].from
                        /\ \A k \in 2..n :
                            ( /\ CoordAt(b, k).kind = "Reference"
                              /\ \E j \in 1..(k - 1) : Carries(b, j, CoordAt(b, k).tag) )
                                => ResolvedAt(b, k) =
                                     ResolvedAt(b, LatestCarrier(b, k, CoordAt(b, k).tag))

\* the example rectangle has been resolved into its closed shape of 4 edges
C4_Witness ==
    /\ pc = "translate"
    /\ shapes = ExampleRectangle
    /\ Len(blueprint[1]) = 4
    /\ blueprint[1][4].to = Point(0, 0)

\* the inner loop is about to resolve a Reference whose tag is not bound at that moment
UnboundFrom ==
    /\ Block[ei].coord.kind = "Reference"
    /\ Block[ei].coord.tag \notin DOMAIN points

UnboundTo ==
    /\ Block[ei + 1].coord.kind = "Reference"
    /\ Block[ei + 1].coord.tag \notin DOMAIN points
    /\ Block[ei + 1].coord.tag # FromTag(Block[ei].coord)

UnboundReferenceAhead ==
    /\ Resolving
    /\ Block # <<>>
    /\ ei < Len(Block)
    /\ UnboundFrom \/ UnboundTo

UnboundTagAhead ==
    IF UnboundFrom THEN Block[ei].coord.tag ELSE Block[ei + 1].coord.tag

\* C5: resolving a Reference whose tag is unbound at that moment stops the run with the
\* fatal error naming that tag; nothing is translated, drawn or written afterwards.
C5_UnboundReferenceIsFatal ==
    /\ [](pc = "exit" =>
            /\ stderr \in Tags
            /\ stderr \notin DOMAIN points
            /\ CoordAt(si, FailedAt) = Reference(stderr)
            /\ Len(blueprint) = ShapeIndexOf(si - 1)
            /\ canvas = NoCanvas
            /\ output = NoCanvas)
    /\ [][UnboundReferenceAhead => (pc' = "exit" /\ stderr' = UnboundTagAhead)]_vars
    /\ [][pc = "exit" => UNCHANGED vars]_vars

\* the run has exited on a Reference in the `to` position of a pair
C5_Witness ==
    /\ pc = "exit"
    /\ stderr = "p0"
    /\ FailedAt = ei + 1
    /\ output = NoCanvas

NonEmptyBlocks == {b \in 1..Len(shapes) : shapes[b] # <<>>}

WithoutEmptyShapes(bp) == SelectSeq(bp, LAMBDA sh : sh # <<>>)

\* C6 as stated: the Blueprint holds one Shape per parsed block, in document order,
\* blocks of zero or one coordinate contributing an empty Shape each.
C6_OneShapePerBlock ==
    pc = "translate" =>
        /\ Len(blueprint) = Len(shapes)
        /\ \A b \in 1..Len(shapes) :
                Len(blueprint[b]) = Max(Len(shapes[b]) - 1, 0)
        /\ boundaries(blueprint) = boundaries(WithoutEmptyShapes(blueprint))

\* C6 amended: the Blueprint holds one Shape per parsed block of at least one
\* coordinate, in document order (a block of one coordinate contributes an empty Shape,
\* a block of zero coordinates no Shape), and empty Shapes do not change its bounding box.
C6_OneShapePerNonEmptyBlock ==
    pc = "translate" =>
        /\ Len(blueprint) = Cardinality(NonEmptyBlocks)
        /\ \A b \in NonEmptyBlocks :
                /\ Len(ShapeOf(b)) = Len(shapes[b]) - 1
                /\ (Len(shapes[b]) >= 2 /\ CoordAt(b, 1).kind = "Absolute")
                        => ShapeOf(b)[1].from = Point(CoordAt(b, 1).x, CoordAt(b, 1).y)
        /\ boundaries(blueprint) = boundaries(WithoutEmptyShapes(blueprint))

\* a block of zero coordinates followed by a block of one coordinate has been resolved
C6_Witness ==
    /\ pc = "translate"
    /\ Len(shapes) = 2
    /\ shapes[1] = <<>>
    /\ Len(shapes[2]) = 1
    /\ blueprint = <<<<>>>>

----------------------------------------------------------------------------
(* Properties of the geometry and the rasterizer, checked under SpecRender *)

\* the endpoints of all the edges of a blueprint
Endpoints(bp) ==
    {Flatten(bp)[k].from : k \in 1..Len(Flatten(bp))}
        \cup {Flatten(bp)[k].to : k \in 1..Len(Flatten(bp))}

Least(S) == CHOOSE m \in S : \A v \in S : m <= v
Greatest(S) == CHOOSE m \in S : \A v \in S : m >= v

\* C7: translate_to_origin on a Blueprint with at least one edge leaves the least x and
\* the least y over all edge endpoints at 0 and every coordinate >= 0, so the conversion
\* to usize that follows never fails; on a Blueprint with no edges it changes nothing
\* and the conversion succeeds too.
C7_TranslateToOriginNormalizes ==
    [][ /\ (pc = "translate" /\ Flatten(blueprint) # <<>>) =>
                /\ Least({p.x : p \in Endpoints(blueprint')}) = 0
                /\ Least({p.y : p \in Endpoints(blueprint')}) = 0
                /\ \A p \in Endpoints(blueprint') : p.x >= 0 /\ p.y >= 0
        /\ (pc = "translate" /\ Flatten(blueprint) = <<>>) => blueprint' = blueprint
        /\ pc = "convert" => pc' = "canvas" ]_vars

\* a Blueprint of two shapes, neither edge touching the corner of the bounding box on
\* its own, has been translated and converted
C7_Witness ==
    /\ pc = "canvas"
    /\ Len(blueprint) = 2
    /\ Len(blueprint[1]) = 1
    /\ Len(blueprint[2]) = 1
    /\ EdgeBoundaries(blueprint[1][1])[1] # Point(0, 0)
    /\ EdgeBoundaries(blueprint[2][1])[1] # Point(0, 0)

\* the edge drawn by the most recent Edge::draw
LastDrawn == Flatten(blueprint)[drawn]

Opaque(e) == as_rgba(color(e))[4] # 0

Dx(e) == e.to.x - e.from.x
Dy(e) == e.to.y - e.from.y

C9_VerticalRun ==
    (drawn >= 1 /\ Opaque(LastDrawn) /\ Dx(LastDrawn) = 0) =>
        LET e == LastDrawn
            lo == IF e.from.y <= e.to.y THEN e.from.y ELSE e.to.y
            hi == IF e.from.y <= e.to.y THEN e.to.y ELSE e.from.y
        IN  /\ Len(calls) = hi - lo + 1
            /\ {<<calls[k][1], calls[k][2]>> : k \in 1..Len(calls)}
                    = {<<e.from.x, y>> : y \in lo..hi}
            /\ \A k \in 1..Len(calls) : calls[k][3] = color(e)
            /\ \A y \in lo..hi : CanvasGet(canvas, e.from.x, y) = color(e)

\* a vertical edge running upwards (to.y < from.y) over three rows or more has been drawn
C9_Witness ==
    /\ pc = "draw"
    /\ drawn = 1
    /\ Opaque(LastDrawn)
    /\ Dx(LastDrawn) = 0
    /\ Dy(LastDrawn) <= -2
    /\ Len(calls) = 1 - Dy(LastDrawn)

\* n / d (d > 0) truncated toward zero
TruncDiv(n, d) == IF n >= 0 THEN n \div d ELSE -((-n) \div d)

Sign(v) == IF v < 0 THEN -1 ELSE IF v > 0 THEN 1 ELSE 0

\* every pixel of the row of a horizontal edge between its endpoints holds its colour
HorizontalFilled(e) ==
    Dy(e) = 0 =>
        \A x \in Min(e.from.x, e.to.x)..Max(e.from.x, e.to.x) :
            CanvasGet(canvas, x, e.from.y) = color(e)

\* C10 as stated: rasterizing a non-transparent edge with dx # 0 calls set |dx|+1 times,
\* once per column from from.x to to.x, with row from.y + step * dy/dx truncated toward
\* zero, step being the number of columns walked; a horizontal edge is filled.
C10_RowByStepTimesSlope ==
    (drawn >= 1 /\ Opaque(LastDrawn) /\ Dx(LastDrawn) # 0) =>
        LET e == LastDrawn
            adx == Abs(Dx(e))
        IN  /\ Len(calls) = adx + 1
            /\ \A k \in 1..Len(calls) :
                LET step == k - 1
                IN  calls[k] =
                        <<e.from.x + Sign(Dx(e)) * step,
                          TruncDiv(e.from.y * adx + step * Dy(e) * Sign(Dx(e)), adx),
                          color(e)>>
            /\ HorizontalFilled(e)

\* C10 amended: the row is from.y + step * dy/|dx| truncated toward zero, that is
\* from.y + step * dy/dx for dx > 0 and from.y - step * dy/dx for dx < 0.
C10_RowByStepTowardTo ==
    (drawn >= 1 /\ Opaque(LastDrawn) /\ Dx(LastDrawn) # 0) =>
        LET e == LastDrawn
            adx == Abs(Dx(e))
        IN  /\ Len(calls) = adx + 1
            /\ \A k \in 1..Len(calls) :
                LET step == k - 1
                IN  calls[k] =
                        <<e.from.x + Sign(Dx(e)) * step,
                          TruncDiv(e.from.y * adx + step * Dy(e), adx),
                          color(e)>>
            /\ HorizontalFilled(e)

\* an edge running leftwards and upwards over four columns or more, on a slope that is
\* not a whole number, has been drawn
C10_Witness ==
    /\ pc = "draw"
    /\ drawn = 1
    /\ Opaque(LastDrawn)
    /\ Dx(LastDrawn) <= -3
    /\ Dy(LastDrawn) < 0
    /\ Dy(LastDrawn) % (-Dx(LastDrawn)) # 0
    /\ Len(calls) = 1 - Dx(LastDrawn)

----------------------------------------------------------------------------
(* Drawing over pixels that are already painted *)

OpaqueColors == {Black, Custom(10, 20, 30, 40)}

\* a shape of two edges over the small grid: the first one painted, the second one of
\* any colour, transparent ones included
InitOverdraw ==
    /\ shapes = <<>>
    /\ pc = "translate"
    /\ si = 1
    /\ ei = 1
    /\ nodes = <<>>
    /\ edges = <<>>
    /\ points = NoPoints
    /\ \E e1 \in PairEdges, c1 \in OpaqueColors, p \in PointsIn(0, 1), q \in PointsIn(0, 1),
          c2 \in EdgeColors :
            blueprint = <<<<[e1 EXCEPT !.attr = <<c1>>],
                            [from |-> p, to |-> q, attr |-> <<c2>>]>>>>
    /\ stderr = None
    /\ canvas = NoCanvas
    /\ drawn = 0
    /\ calls = <<>>
    /\ output = NoCanvas
    /\ OthersIdle

SpecOverdraw == InitOverdraw /\ [][NextRender]_vars

\* the edge the next Edge::draw is called on
NextDrawn == Flatten(blueprint)[drawn + 1]

----------------------------------------------------------------------------
(* The lexer.  A source text is the sequence of its characters, all ASCII, *)
(* so that the byte offset of the character at index i is i - 1.  A token  *)
(* is [node, span]: node is [kind] or [kind, val], span is [start, end]    *)
(* in byte offsets, end exclusive.                                         *)

Digits == {"0", "1", "2", "3", "4", "5", "6", "7", "8", "9"}

AsciiAlphabetic ==
    {"a", "b", "c", "d", "e", "f", "g", "h", "i", "j", "k", "l", "m",
     "n", "o", "p", "q", "r", "s", "t", "u", "v", "w", "x", "y", "z",
     "A", "B", "C", "D", "E", "F", "G", "H", "I", "J", "K", "L", "M",
     "N", "O", "P", "Q", "R", "S", "T", "U", "V", "W", "X", "Y", "Z"}

AsciiAlphanumeric == AsciiAlphabetic \cup Digits

\* char::is_whitespace, the ASCII part
Whitespace == {" ", "\n", "\t", "\r"}

\* the words the checked texts are written with, and their spelling
Words == {"shape", "p0", "color", "blue", "puce", "width", "x"}

Spell(w) ==
    CASE w = "shape" -> <<"s", "h", "a", "p", "e">>
      [] w = "p0"    -> <<"p", "0">>
      [] w = "color" -> <<"c", "o", "l", "o", "r">>
      [] w = "blue"  -> <<"b", "l", "u", "e">>
      [] w = "puce"  -> <<"p", "u", "c", "e">>
      [] w = "width" -> <<"w", "i", "d", "t", "h">>
      [] w = "x"     -> <<"x">>

\* to_slice: the &str of the characters cs ("" for the empty slice, "?" for a slice
\* that is not one of Words)
Slice(cs) ==
    IF cs = <<>> THEN ""
    ELSE IF \E w \in Words : Spell(w) = cs THEN CHOOSE w \in Words : Spell(w) = cs
    ELSE "?"

\* repeated() over characters of the set S: the index after the longest run from i
RECURSIVE SkipWhile(_, _, _)
SkipWhile(s, i, S) ==
    IF i > Len(s) \/ s[i] \notin S THEN i ELSE SkipWhile(s, i + 1, S)

\* any().and_is(just('\n').not()).repeated(): the index after the rest of the line
RECURSIVE SkipLine(_, _)
SkipLine(s, i) ==
    IF i > Len(s) \/ s[i] = "\n" THEN i ELSE SkipLine(s, i + 1)

\* padded(): the index after the whitespace from i
SkipWs(s, i) == SkipWhile(s, i, Whitespace)

\* comment: just("//").then(...).padded() with the whitespace before it skipped to a;
\* the index after it, 0 when there is none
CommentFrom(s, a) ==
    IF a + 1 <= Len(s) /\ s[a] = "/" /\ s[a + 1] = "/"
    THEN SkipWs(s, SkipLine(s, a + 2))
    ELSE 0

CommentEnd(s, i) == CommentFrom(s, SkipWs(s, i))

RECURSIVE SkipComments(_, _)

\* e is the end of the comment at i, 0 when there is none
AfterComment(s, i, e) == IF e = 0 THEN i ELSE SkipComments(s, e)

\* comment.repeated()
SkipComments(s, i) == AfterComment(s, i, CommentEnd(s, i))

\* the digits of i32::MAX
I32MaxDigits == <<2, 1, 4, 7, 4, 8, 3, 6, 4, 7>>

DigitValue(c) ==
    CASE c = "0" -> 0 [] c = "1" -> 1 [] c = "2" -> 2 [] c = "3" -> 3 [] c = "4" -> 4
      [] c = "5" -> 5 [] c = "6" -> 6 [] c = "7" -> 7 [] c = "8" -> 8 [] c = "9" -> 9

\* i32::from_str on a slice of digits without leading zero is Ok
FromStrOk(ds) ==
    \/ Len(ds) < Len(I32MaxDigits)
    \/ /\ Len(ds) = Len(I32MaxDigits)
       /\ \/ \A k \in 1..Len(ds) : DigitValue(ds[k]) = I32MaxDigits[k]
          \/ \E k \in 1..Len(ds) :
                /\ DigitValue(ds[k]) < I32MaxDigits[k]
                /\ \A j \in 1..(k - 1) : DigitValue(ds[j]) = I32MaxDigits[j]

\* i32::from_str on a slice of digits for which it is Ok
RECURSIVE FromStr(_)
FromStr(ds) ==
    IF ds = <<>> THEN 0
    ELSE 10 * FromStr(SubSeq(ds, 1, Len(ds) - 1)) + DigitValue(ds[Len(ds)])

Tok(kind) == [kind |-> kind]
TokVal(kind, val) == [kind |-> kind, val |-> val]
Spanned(node, start, end) == [node |-> node, span |-> [start |-> start, end |-> end]]

Failed == [res |-> "fail"]
Panicked == [res |-> "panic"]
Lexed(node, i, next) == [res |-> "ok", tok |-> Spanned(node, i - 1, next - 1), next |-> next]

\* text::int(10): the index after the integer at j, 0 when there is none
IntEnd(s, j) ==
    IF j > Len(s) THEN 0
    ELSE IF s[j] \in Digits \ {"0"} THEN SkipWhile(s, j + 1, Digits)
    ELSE IF s[j] = "0" THEN j + 1
    ELSE 0

Punctuation(c) ==
    CASE c = "," -> "Comma" [] c = ":" -> "Colon" [] c = "@" -> "At"
      [] c = "{" -> "OpenCurly" [] c = "}" -> "CloseCurly"
      [] c = "[" -> "OpenSquare" [] c = "]" -> "CloseSquare"
      [] OTHER -> ""

\* lexer.rs 47-51: the number whose digits are s[j .. n - 1], the token starting at i
NumToken(s, i, j, n) ==
    LET ds == SubSeq(s, j, n - 1)
    IN  IF ~FromStrOk(ds) THEN Panicked
        ELSE Lexed(TokVal("Num", (IF s[i] = "-" THEN -1 ELSE 1) * FromStr(ds)), i, n)

\* lexer.rs 53-59: the identifier or keyword spelled ident
IdentNode(ident) == IF ident = "shape" THEN Tok("Shape") ELSE TokVal("Ident", ident)

\* lexer.rs 47-90: the token at i, n being the end of the integer at j, 0 when there is
\* none
TokenOf(s, i, j, n) ==
    IF n # 0 THEN NumToken(s, i, j, n)
    ELSE IF s[i] \in AsciiAlphabetic \cup {"_"} THEN
        LET e == SkipWhile(s, i + 1, AsciiAlphanumeric \cup {"_"})
        IN  Lexed(IdentNode(Slice(SubSeq(s, i, e - 1))), i, e)
    ELSE IF s[i] = "#" THEN
        LET e == SkipWhile(s, i + 1, AsciiAlphanumeric \cup {"_", "-"})
        IN  Lexed(TokVal("Tag", Slice(SubSeq(s, i + 1, e - 1))), i, e)
    ELSE IF Punctuation(s[i]) # "" THEN Lexed(Tok(Punctuation(s[i])), i, i + 1)
    ELSE Failed

\* the token at i, its integer, if it is one, starting at j
TokenFrom(s, i, j) == TokenOf(s, i, j, IntEnd(s, j))

\* lexer.rs 47-96: `token` with its span, at index i
TokenAt(s, i) ==
    IF i > Len(s) THEN Failed ELSE TokenFrom(s, i, IF s[i] = "-" THEN i + 1 ELSE i)

\* the comments and the whitespace after the token t
Padded(s, t) ==
    IF t.res = "ok" THEN [t EXCEPT !.next = SkipWs(s, SkipComments(s, t.next))] ELSE t

\* lexer.rs 92-98: the token padded by comments and whitespace, at index i
PaddedTokenAt(s, i) == Padded(s, TokenAt(s, SkipComments(s, SkipWs(s, i))))

\* lexer.rs 99: skip_then_retry_until(any().ignored(), end()), the padded token having
\* failed; k is the index of the next character to skip
RECURSIVE Recover(_, _)
Recover(s, k) ==
    IF k > Len(s) THEN Failed
    ELSE LET t == PaddedTokenAt(s, k + 1)
         IN  IF t.res = "fail" THEN Recover(s, k + 1) ELSE t

\* lexer.rs 92-101: the recovering token, repeated and collected from index i on; the
\* end of input is required after the last one.  Some(tokens) is <<tokens>>, None is <<>>.
RECURSIVE LexFrom(_, _, _, _)
LexFrom(s, i, toks, errs) ==
    LET t == PaddedTokenAt(s, i)
        r == IF t.res = "fail" THEN Recover(s, i) ELSE t
    IN  IF r.res = "panic" THEN [res |-> "panic"]
        ELSE IF r.res = "ok"
        THEN LexFrom(s, r.next, Append(toks, r.tok),
                     IF t.res = "fail" THEN errs + 1 ELSE errs)
        ELSE IF i = Len(s) + 1
        THEN [res |-> "ok", output |-> <<toks>>, errors |-> errs]
        ELSE [res |-> "ok", output |-> <<>>, errors |-> errs + 1]

\* lexer().parse(src).into_output_errors()
lexer(s) == LexFrom(s, 1, <<>>, 0)

----------------------------------------------------------------------------
(* The parser, over the token sequence ts.  A combinator at index i is     *)
(* [ok |-> TRUE, val, next] or [ok |-> FALSE].                             *)

NoMatch == [ok |-> FALSE]
Match(val, next) == [ok |-> TRUE, val |-> val, next |-> next]

KindAt(ts, i) == IF i <= Len(ts) THEN ts[i].node.kind ELSE "<end>"

\* parser.rs 192
num_pair(ts, i) ==
    IF KindAt(ts, i) = "Num" /\ KindAt(ts, i + 1) = "Comma" /\ KindAt(ts, i + 2) = "Num"
    THEN Match(<<ts[i].node.val, ts[i + 2].node.val>>, i + 3)
    ELSE NoMatch

\* tag.or_not() at index i: the tag and the index after it
OptTagAt(ts, i) ==
    IF KindAt(ts, i) = "Tag" THEN Match(ts[i].node.val, i + 1) ELSE Match(None, i)

\* the coordinate of the kind given after its pair of numbers p, with its tag if any
WithTag(ts, kind, p) ==
    LET t == OptTagAt(ts, p.next)
    IN  IF ~p.ok THEN NoMatch
        ELSE IF kind = "Relative" THEN Match(Relative(p.val[1], p.val[2], t.val), t.next)
        ELSE Match(Absolute(p.val[1], p.val[2], t.val), t.next)

\* parser.rs 193-196
coord_rel(ts, i) == WithTag(ts, "Relative", num_pair(ts, i))

\* parser.rs 197-200
coord_abs(ts, i) ==
    IF KindAt(ts, i) = "At" THEN WithTag(ts, "Absolute", num_pair(ts, i + 1)) ELSE NoMatch

\* parser.rs 201
coord_ref(ts, i) ==
    IF KindAt(ts, i) = "At" /\ KindAt(ts, i + 1) = "Tag"
    THEN Match(Reference(ts[i + 1].node.val), i + 2)
    ELSE NoMatch

\* parser.rs 202: choice((coord_rel, coord_abs, coord_ref))
choice(rel, abs, ref) == IF rel.ok THEN rel ELSE IF abs.ok THEN abs ELSE ref

\* the coordinate c parsed from i on, with the offset of its last token as its start
map_with_last_span(ts, i, c) ==
    IF c.ok THEN Match([node |-> c.val, start |-> ts[c.next - 1].span.start], c.next)
    ELSE NoMatch

\* parser.rs 202-205: map_with, the coordinate c parsed from i on with the start of its
\* span
map_with_span(ts, i, c) ==
    IF c.ok THEN Match([node |-> c.val, start |-> ts[i].span.start], c.next)
    ELSE NoMatch

\* parser.rs 202-205: the coordinate with the start of its span
coord(ts, i) ==
    map_with_span(ts, i, choice(coord_rel(ts, i), coord_abs(ts, i), coord_ref(ts, i)))

\* parser.rs 207
edge_attr(ts, i) ==
    IF KindAt(ts, i) = "Ident" /\ KindAt(ts, i + 1) = "Colon" /\ KindAt(ts, i + 2) = "Ident"
    THEN Match(<<ts[i].node.val, ts[i + 2].node.val>>, i + 3)
    ELSE NoMatch

RECURSIVE edge_attr_list(_, _, _)

\* the attribute a, if it is one, is inserted and the list goes on after a comma
Collected(ts, i, map, a) ==
    IF ~a.ok THEN Match(map, i)
    ELSE IF KindAt(ts, a.next) # "Comma"
    THEN Match(insert(map, a.val[1], a.val[2]), a.next)
    ELSE edge_attr_list(ts, a.next + 1, insert(map, a.val[1], a.val[2]))

\* parser.rs 208-211: the attributes separated by commas, a trailing comma allowed,
\* collected into a HashMap
edge_attr_list(ts, i, map) == Collected(ts, i, map, edge_attr(ts, i))

\* delimited_by: the list l between the brackets open, at i, and close
Delimited(ts, i, open, close, l) ==
    IF KindAt(ts, i) = open /\ KindAt(ts, l.next) = close
    THEN Match(l.val, l.next + 1)
    ELSE NoMatch

\* parser.rs 212
edge_attrs(ts, i) ==
    Delimited(ts, i, "OpenSquare", "CloseSquare", edge_attr_list(ts, i + 1, NoAttributes))

\* parser.rs 216-220: the EdgeStart of the coordinate c and its attributes a, if any
NewEdgeStart(c, a) ==
    Match([coord |-> c.val.node,
           start |-> c.val.start,
           attributes |-> IF a.ok THEN a.val ELSE NoAttributes],
          IF a.ok THEN a.next ELSE c.next)

\* coord.then(edge_attrs.or_not()) after the coordinate c
ThenAttrs(ts, c) == IF ~c.ok THEN NoMatch ELSE NewEdgeStart(c, edge_attrs(ts, c.next))

\* parser.rs 214-220
node(ts, i) == ThenAttrs(ts, coord(ts, i))

\* parser.rs 221: node.repeated().collect()
RECURSIVE node_repeated(_, _, _)
node_repeated(ts, i, acc) ==
    LET n == node(ts, i)
    IN  IF n.ok THEN node_repeated(ts, n.next, Append(acc, n.val)) ELSE Match(acc, i)

\* parser.rs 223-224: just(Token::Shape).ignore_then(nodes.delimited_by(...))
shape_block(ts, i) ==
    IF KindAt(ts, i) = "Shape"
    THEN Delimited(ts, i + 1, "OpenCurly", "CloseCurly", node_repeated(ts, i + 2, <<>>))
    ELSE NoMatch

\* parser.rs 223-226: the blocks repeated and collected; the end of input is required
\* after the last one and nothing recovers from an error
RECURSIVE ParseFrom(_, _, _)
ParseFrom(ts, i, acc) ==
    LET b == shape_block(ts, i)
    IN  IF b.ok THEN ParseFrom(ts, b.next, Append(acc, b.val))
    ELSE IF i = Len(ts) + 1
    THEN [output |-> <<acc>>, errors |-> 0]
    ELSE [output |-> <<>>, errors |-> 1]

\* parser().parse(tokens).into_output_errors()
parser(ts) == ParseFrom(ts, 1, <<>>)

\* Option::unwrap_or_default on a Vec
unwrap_or_default(opt) == IF opt = <<>> THEN <<>> ELSE opt[1]

----------------------------------------------------------------------------
(* parser::parse as the first steps of main() *)

\* parser.rs 32-33: the lexer runs over the source; `unwrapped()` panics
Lex ==
    /\ pc = "lex"
    /\ \E r \in {lexer(src)} :
           IF r.res = "panic"
           THEN /\ pc' = "panic"
                /\ UNCHANGED <<tokens, lexer_errors>>
           ELSE /\ tokens' = unwrap_or_default(r.output)
                /\ lexer_errors' = r.errors
                /\ pc' = "parse"
    /\ UNCHANGED <<shapes, si, ei, nodes, edges, points, blueprint, stderr,
                   canvas, drawn, calls, output, src, parser_errors, given, sideVars>>

\* parser.rs 35-76 and main.rs 13: the parser runs over the tokens, the errors are
\* reported and the coordinates, or nothing, are returned to main()
Parse ==
    /\ pc = "parse"
    /\ \E r \in {parser(tokens)} :
           /\ parser_errors' = r.errors
           /\ shapes' = unwrap_or_default(r.output)
           /\ pc' = IF unwrap_or_default(r.output) = <<>> THEN "translate" ELSE "resolve"
    /\ UNCHANGED <<si, ei, nodes, edges, points, blueprint, stderr,
                   canvas, drawn, calls, output, src, tokens, lexer_errors, given,
                   sideVars>>

----------------------------------------------------------------------------
(* Source texts *)

DigitChar(d) ==
    CASE d = 0 -> "0" [] d = 1 -> "1" [] d = 2 -> "2" [] d = 3 -> "3" [] d = 4 -> "4"
      [] d = 5 -> "5" [] d = 6 -> "6" [] d = 7 -> "7" [] d = 8 -> "8" [] d = 9 -> "9"

\* n >= 0 written in decimal
RECURSIVE Unsigned(_)
Unsigned(n) ==
    IF n < 10 THEN <<DigitChar(n)>> ELSE Unsigned(n \div 10) \o <<DigitChar(n % 10)>>

\* n written in decimal
Decimal(n) == IF n < 0 THEN <<"-">> \o Unsigned(-n) ELSE Unsigned(n)

TagText(t) == IF t = None THEN <<>> ELSE <<" ", "#">> \o Spell(t)

CoordText(c) ==
    CASE c.kind = "Relative"  -> Decimal(c.x) \o <<",">> \o Decimal(c.y) \o TagText(c.tag)
      [] c.kind = "Absolute"  -> <<"@">> \o Decimal(c.x) \o <<",">> \o Decimal(c.y)
                                    \o TagText(c.tag)
      [] c.kind = "Reference" -> <<"@", "#">> \o Spell(c.tag)

\* the attribute list l, a sequence of <<key, value>>, written between brackets
RECURSIVE AttrListText(_)
AttrListText(l) ==
    IF l = <<>> THEN <<>>
    ELSE Spell(l[1][1]) \o <<":">> \o Spell(l[1][2])
            \o (IF Len(l) > 1 THEN <<",", " ">> ELSE <<>>) \o AttrListText(Tail(l))

AttrText(l) == IF l = <<>> THEN <<>> ELSE <<" ", "[">> \o AttrListText(l) \o <<"]">>

\* a node written from [coord, attrs]
NodeText(n) == CoordText(n.coord) \o AttrText(n.attrs)

RECURSIVE NodesText(_)
NodesText(ns) ==
    IF ns = <<>> THEN <<>> ELSE NodeText(Head(ns)) \o <<" ">> \o NodesText(Tail(ns))

BlockText(b) == Spell("shape") \o <<" ", "{", " ">> \o NodesText(b) \o <<"}">>

RECURSIVE Lines(_)
Lines(ts) == IF ts = <<>> THEN <<>> ELSE Head(ts) \o <<"\n">> \o Lines(Tail(ts))

\* longest text of the short-text family, and most nodes of a written block
MaxLen == 4
MaxNodes == 3

\* attribute lists as written in the source: <<key, value>> pairs
AttrLists ==
    {<<>>,
     <<<<"color", "blue">>>>,
     <<<<"color", "puce">>>>,
     <<<<"width", "x">>>>,
     <<<<"width", "x">>, <<"color", "blue">>>>}

Written(c, l) == [coord |-> c, attrs |-> l]

\* shape { @0,0 #p0 0,5 5,5 5,0 @#p0 }, the text of parser.rs test_parser
RectangleBlock ==
    <<Written(Absolute(0, 0, "p0"), <<>>), Written(Relative(0, 5, None), <<>>),
      Written(Relative(5, 5, None), <<>>), Written(Relative(5, 0, None), <<>>),
      Written(Reference("p0"), <<>>)>>

RectangleText == BlockText(RectangleBlock)

\* shape { @0,0 2,1 }
SquareBlock == <<Written(Absolute(0, 0, None), <<>>), Written(Relative(2, 1, None), <<>>)>>

SquareText == BlockText(SquareBlock)

\* shape { @3,0 @1,2 [color: blue] @3,2 }
BlueBlock ==
    <<Written(Absolute(3, 0, None), <<>>),
      Written(Absolute(1, 2, None), <<<<"color", "blue">>>>),
      Written(Absolute(3, 2, None), <<>>)>>

BlueText == BlockText(BlueBlock)

\* shape { @0,0 1 1 }: the comma of the second coordinate is missing
MissingCommaText == Spell("shape") \o <<" ", "{", " ", "@", "0", ",", "0", " ", "1", " ", "1", " ", "}">>

\* shape { @0,0 1,1 : the closing curly bracket is missing
UnclosedText == Spell("shape") \o <<" ", "{", " ", "@", "0", ",", "0", " ", "1", ",", "1", " ">>

\* shape { @0,0 [color] 1,1 }: an attribute without its value
BadAttributeText == Spell("shape") \o <<" ", "{", " ", "@", "0", ",", "0", " ", "[", "c", "o", "l", "o", "r", "]", " ", "1", ",", "1", " ", "}">>

\* shape { @0,0 $ 1,1 }: a character no token starts with
StrayCharText == Spell("shape") \o <<" ", "{", " ", "@", "0", ",", "0", " ", "$", " ", "1", ",", "1", " ", "}">>

\* shape { @0,0 $% 1,1 } // over: two such characters in a row, and a comment
StrayRunText == Spell("shape") \o <<" ", "{", " ", "@", "0", ",", "0", " ", "$", "%", " ", "1", ",", "1", " ", "}", " ", "/", "/", " ", "o", "v", "e", "r">>

\* shape { @0,0 1,1 } $ : such a character after the last token
StrayLastText == Spell("shape") \o <<" ", "{", " ", "@", "0", ",", "0", " ", "1", ",", "1", " ", "}", " ", "$">>

BlockTexts ==
    {SquareText, BlueText, MissingCommaText, UnclosedText, BadAttributeText,
     StrayCharText, StrayRunText, StrayLastText}

\* i32::MAX, i32::MAX + 1 and a number of eleven digits, alone and as a coordinate
NumberTexts ==
    LET max == Decimal(I32Max)
        over == SubSeq(max, 1, Len(max) - 1) \o <<"8">>
        long == max \o <<"0">>
    IN  {max, <<"-">> \o max, over, <<"-">> \o over, long,
         Spell("shape") \o <<" ", "{", " ", "@", "0", ",", "0", " ">> \o over
            \o <<",", "0", " ", "}">>}

LexAlphabet == {"1", "0", "-", "$", " ", "#"}

\* nothing, or one well-formed block
OptWellFormedBlocks == {<<>>, <<SquareBlock>>, <<BlueBlock>>}

OptWellFormed == {[k \in DOMAIN bs |-> BlockText(bs[k])] : bs \in OptWellFormedBlocks}

\* the source text is one of the checked texts: a block of generated coordinates, a
\* block of rising coordinates with generated attribute lists, a block text with
\* nothing or a well-formed block before and after it, a short text over LexAlphabet,
\* a number text, the text of test_parser
SourceText(t) ==
    \/ \E n \in 0..MaxNodes : \E f \in [1..n -> CoordChoices] :
            t = BlockText([k \in 1..n |-> Written(f[k], <<>>)])
    \/ \E n \in 2..MaxNodes : \E f \in [1..n -> AttrLists] :
            t = BlockText([k \in 1..n |-> Written(Absolute(k, 2 * (k % 2), None), f[k])])
    \/ \E pre \in OptWellFormed, m \in BlockTexts, post \in OptWellFormed :
            t = Lines(pre \o <<m>> \o post)
    \/ \E n \in 0..MaxLen : \E f \in [1..n -> LexAlphabet] : t = f
    \/ t \in NumberTexts \cup {RectangleText}

\* main() from the source text on
InitParse ==
    /\ SourceText(src)
    /\ pc = "lex"
    /\ tokens = <<>>
    /\ lexer_errors = 0
    /\ parser_errors = 0
    /\ given = None
    /\ SidesIdle
    /\ shapes = <<>>
    /\ si = 1
    /\ ei = 1
    /\ nodes = <<>>
    /\ edges = <<>>
    /\ points = NoPoints
    /\ blueprint = <<>>
    /\ stderr = None
    /\ canvas = NoCanvas
    /\ drawn = 0
    /\ calls = <<>>
    /\ output = NoCanvas

NextParse ==
    \/ Lex
    \/ Parse
    \/ SkipEmptyShape
    \/ ResolveEdge
    \/ ResolveExit
    \/ PushShape
    \/ TranslateToOrigin
    \/ Convert
    \/ NewCanvas
    \/ DrawEdge
    \/ PadAndWrite

SpecParse == InitParse /\ [][NextParse]_vars

----------------------------------------------------------------------------
(* Properties of parser::parse, checked under SpecParse *)

WellFormedTexts == {SquareText, BlueText}
SyntaxErrorTexts == {MissingCommaText, UnclosedText, BadAttributeText}

\* parser::parse has returned
Parsed == pc \notin {"lex", "parse", "panic"}

\* the coordinates and attributes of the nodes of a block, without their offsets
Strip(block) ==
    [k \in 1..Len(block) |-> [coord |-> block[k].coord, attributes |-> block[k].attributes]]

\* what parse returns for the text t alone
ParseAlone(t) == unwrap_or_default(parser(unwrap_or_default(lexer(t).output)).output)

\* C12: a syntax error inside one shape block does not abort parsing: the well-formed
\* shapes before and after it are still returned by parse, with a diagnostic, and
\* rendered.
C12_SyntaxErrorKeepsOtherShapes ==
    \A a \in WellFormedTexts, m \in SyntaxErrorTexts, b \in WellFormedTexts :
        (Parsed /\ src = Lines(<<a, m, b>>)) =>
            /\ parser_errors >= 1
            /\ Len(shapes) >= 2
            /\ Strip(shapes[1]) = Strip(ParseAlone(a)[1])
            /\ Strip(shapes[Len(shapes)]) = Strip(ParseAlone(b)[1])
            /\ pc = "done" => output.pixels # NoPixels

\* the kinds of the tokens ts
Kinds(ts) == [k \in 1..Len(ts) |-> ts[k].node.kind]

\* C13: for every source text the lexer returns its tokens and diagnostics and never
\* panics, digit strings that do not fit i32 included; an unrecognized character is
\* skipped with one diagnostic and the valid tokens after it are still produced.
C13_LexerAlwaysReturns ==
    [][pc = "lex" =>
            /\ pc' = "parse"
            /\ src = StrayCharText =>
                    /\ lexer_errors' = 1
                    /\ Kinds(tokens') = Kinds(unwrap_or_default(lexer(SquareText).output))]_vars

----------------------------------------------------------------------------
(* Properties of the edge colours, checked under SpecParse *)

KnownColorNames ==
    {"transparent", "white", "black", "red", "green", "blue", "yellow", "magenta", "cyan"}

\* the inner loop of main() is about to build an edge from the node Block[ei]
BuildsEdge == Resolving /\ Block # <<>> /\ ei < Len(Block) /\ Len(edges') = Len(edges) + 1

\* the attributes of the node the next edge starts from
FromAttributes == Block[ei].attributes

\* C14: when the color attribute of a node is not one of the nine known names, exactly
\* one recoverable diagnostic is emitted, the edge is still produced with the default
\* colour Black, and compilation continues.
C14_UnknownColorIsDiagnosed ==
    [][(/\ BuildsEdge
        /\ "color" \in DOMAIN FromAttributes
        /\ FromAttributes["color"] \notin KnownColorNames) =>
            /\ color(Last(edges')) = Black
            /\ pc' = "resolve"
            /\ stderr' # stderr]_vars

\* C15: the colour of an edge is the value of the color attribute of the node the edge
\* starts from when that value is a known name, Black when that node has no color
\* attribute; the attributes of the node the edge ends at and the other attribute keys
\* change nothing.
C15_ColorOfOriginatingNode ==
    [][BuildsEdge =>
            /\ Last(edges').attr =
                    <<IF "color" \notin DOMAIN FromAttributes THEN Black
                      ELSE IF FromAttributes["color"] = "blue" THEN [name |-> "Blue"]
                      ELSE color(Last(edges'))>>
            /\ DOMAIN Last(edges') = {"from", "to", "attr"}]_vars

\* an edge has been built Blue from a node with `width: x, color: blue`, the node it
\* ends at having `color: puce`
C15_Witness ==
    /\ pc = "resolve"
    /\ ei = 2
    /\ Len(edges) = 1
    /\ Block[1].attributes = [color |-> "blue", width |-> "x"]
    /\ Len(Block) = 3
    /\ "color" \in DOMAIN Block[2].attributes
    /\ Block[2].attributes["color"] = "puce"
    /\ color(edges[1]) = [name |-> "Blue"]

----------------------------------------------------------------------------
(* translate_to_origin and back *)

\* a generated Blueprint<i32>, kept aside before translate_to_origin is called on it
InitRoundTrip ==
    /\ shapes = <<>>
    /\ pc = "translate"
    /\ si = 1
    /\ ei = 1
    /\ nodes = <<>>
    /\ edges = <<>>
    /\ points = NoPoints
    /\ \/ \E l \in RenderLayouts : \E f \in [1..SumSeq(l) -> PairEdges] :
            blueprint = Cut(f, l)
       \/ \E e \in SingleEdges : blueprint = <<<<e>>>>
    /\ given = blueprint
    /\ SidesIdle
    /\ stderr = None
    /\ canvas = NoCanvas
    /\ drawn = 0
    /\ calls = <<>>
    /\ output = NoCanvas
    /\ NoText

\* Translate for Blueprint<i32>, by the top-left corner the Blueprint had before
\* translate_to_origin
TranslateBack ==
    /\ pc = "convert"
    /\ given # None
    /\ blueprint' = translate(blueprint, boundaries(given)[1].x, boundaries(given)[1].y)
    /\ pc' = "back"
    /\ UNCHANGED <<shapes, si, ei, nodes, edges, points, stderr, canvas, drawn, calls,
                   output, otherVars>>

NextRoundTrip ==
    \/ TranslateToOrigin
    \/ TranslateBack

SpecRoundTrip == InitRoundTrip /\ [][NextRoundTrip]_vars

\* C16: translate_to_origin followed by a translation by the original top-left corner
\* gives back the original Blueprint: the same shapes and edges in the same order, with
\* the same endpoints.
C16_TranslateRoundTrip ==
    /\ pc = "convert" => Len(blueprint) = Len(given)
    /\ pc = "back" =>
            /\ blueprint = given
            /\ \A k \in 1..Len(given) : \A j \in 1..Len(given[k]) :
                    /\ blueprint[k][j].from = given[k][j].from
                    /\ blueprint[k][j].to = given[k][j].to

\* a Blueprint of two shapes whose top-left corner is off the origin on both axes,
\* below zero on one of them, has been translated to the origin and back
C16_Witness ==
    /\ pc = "back"
    /\ Len(given) = 2
    /\ Len(given[1]) = 1
    /\ Len(given[2]) = 1
    /\ boundaries(given)[1].x < 0
    /\ boundaries(given)[1].y > 0
    /\ given[1] # given[2]
    /\ blueprint = given

----------------------------------------------------------------------------
(* Canvas::pad on small canvases *)

\* longest side of a padded canvas
MaxSide == 2

Margins == {0, 1, PadMargin}

PaintColors == {Black, White, Custom(10, 20, 30, 40)}

\* a canvas of sides up to MaxSide on which up to two pixels have been set, and the
\* two margins of the call
InitPad ==
    /\ pc = "pad"
    /\ \E w \in 0..MaxSide, h \in 0..MaxSide, n \in 0..2 :
        \E cs \in [1..n -> (0..(w - 1)) \X (0..(h - 1)) \X PaintColors] :
            canvas = ApplyCalls(CanvasNew(w, h), cs)
    /\ \E horizontal \in Margins, vertical \in Margins :
            given = [horizontal |-> horizontal, vertical |-> vertical]
    /\ SidesIdle
    /\ output = NoCanvas
    /\ shapes = <<>>
    /\ si = 1
    /\ ei = 1
    /\ nodes = <<>>
    /\ edges = <<>>
    /\ points = NoPoints
    /\ blueprint = <<>>
    /\ stderr = None
    /\ drawn = 0
    /\ calls = <<>>
    /\ NoText

\* main.rs 652-662
Pad ==
    /\ pc = "pad"
    /\ output' = pad(canvas, given.horizontal, given.vertical)
    /\ pc' = "padded"
    /\ UNCHANGED <<shapes, si, ei, nodes, edges, points, blueprint, stderr, canvas,
                   drawn, calls, otherVars>>

NextPad == Pad

SpecPad == InitPad /\ [][NextPad]_vars

\* the pixel (x, y) of the canvas c lies in the copy of a canvas of the sides w and ht
\* placed at the margins h and v
InCopy(x, y, w, ht, h, v) == x >= h /\ x < h + w /\ y >= v /\ y < v + ht

\* C17: Canvas::pad(h, v) returns a new canvas of width w + 2h and height ht + 2v in
\* which the pixel (x + h, y + v) is the pixel (x, y) of the original for all x < w and
\* y < ht and every other pixel is White; the original canvas is not modified.
C17_PadCopiesAtMargins ==
    [][pc = "pad" =>
        LET h == given.horizontal
            v == given.vertical
        IN  /\ output'.width = canvas.width + 2 * h
            /\ output'.height = canvas.height + 2 * v
            /\ DOMAIN output'.pixels \subseteq 0..(output'.width * output'.height - 1)
            /\ \A x \in 0..(output'.width - 1), y \in 0..(output'.height - 1) :
                    CanvasGet(output', x, y) =
                        IF InCopy(x, y, canvas.width, canvas.height, h, v)
                        THEN CanvasGet(canvas, x - h, y - v)
                        ELSE White
            /\ canvas' = canvas]_vars

\* a canvas of two columns and two rows with two pixels set, one at the right of the
\* first row and one at the left of the second, has been padded by different margins
C17_Witness ==
    /\ pc = "padded"
    /\ canvas.width = 2
    /\ canvas.height = 2
    /\ CanvasGet(canvas, 1, 0) = Black
    /\ CanvasGet(canvas, 0, 1) = Custom(10, 20, 30, 40)
    /\ given = [horizontal |-> 1, vertical |-> PadMargin]
    /\ CanvasGet(output, 2, PadMargin) = Black
    /\ CanvasGet(output, 1, PadMargin + 1) = Custom(10, 20, 30, 40)
    /\ output.width = 4

----------------------------------------------------------------------------
(* The image writer: PpmImageReader *)

\* PpmImageReader::CAP
CAP == 16

\* read: one_pixel_size
one_pixel_size == 12

\* String::push_str: the text is appended, and a string that does not fit its capacity
\* is reallocated to twice the capacity, or to the length needed when that is more
Push(r, text) ==
    LET len == Len(r.buf) + Len(text)
    IN  [r EXCEPT !.buf = @ \o text,
                  !.capacity = IF len <= @ THEN @ ELSE Max(2 * @, len)]

\* the three header lines
HeaderText(c) ==
    <<"P", "3", "\n">> \o Unsigned(c.width) \o <<" ">> \o Unsigned(c.height) \o <<"\n">>
        \o <<"2", "5", "5", "\n">>

\* PpmImageReader::new; debug_assertions is the profile the program was built with
NewPpmImageReader(c, debug_assertions) ==
    Push([x |-> 0, y |-> 0, buf |-> <<>>, pos |-> 0, capacity |-> CAP,
          debug_assertions |-> debug_assertions],
         HeaderText(c))

\* "{r} {g} {b}" of the pixel (x, y)
PixelText(c, x, y) ==
    LET rgba == as_rgba(CanvasGet(c, x, y))
    IN  Unsigned(rgba[1]) \o <<" ">> \o Unsigned(rgba[2]) \o <<" ">> \o Unsigned(rgba[3])

\* a space after every pixel, the last of the row included
SeparatorAfterEach(c, x) == <<" ">>

\* read, lines 95-97: what is written after the pixel of the column x
Separator(c, x) == IF x < c.width - 1 THEN <<" ">> ELSE <<>>

\* the inner loop of read: the pixels of the row y from x on, as long as one more pixel
\* fits the capacity; broke is the `break 'outer`
RECURSIVE FillPixels(_, _)
FillPixels(r, c) ==
    IF r.x < c.width
    THEN IF Len(r.buf) + one_pixel_size > r.capacity
         THEN [reader |-> r, broke |-> TRUE]
         ELSE LET p == Push(r, PixelText(c, r.x, r.y))
                  q == Push(p, Separator(c, r.x))
              IN  FillPixels([q EXCEPT !.x = @ + 1], c)
    ELSE [reader |-> r, broke |-> FALSE]

RECURSIVE FillRows(_, _)

\* read, lines 107-109: the loop over the rows goes on when one more line fits
NextRow(n, c) ==
    IF Len(n.buf) + c.width * one_pixel_size + 1 > n.capacity THEN n ELSE FillRows(n, c)

\* read, lines 102-105: the end of the line after the pixels of a row
EndRow(f, c) ==
    IF f.broke THEN f.reader
    ELSE NextRow([Push(f.reader, <<"\n">>) EXCEPT !.x = 0, !.y = @ + 1], c)

\* the outer loop of read: rows from y on, as long as one more line fits the capacity
FillRows(r, c) == IF r.y < c.height THEN EndRow(FillPixels(r, c), c) ELSE r

\* read, lines 123-134: the buffer is cleared once it is copied whole; the reader after
\* the call, the bytes copied and whether the debug assertion on the capacity fires
Returned(after, bytes) ==
    [reader |-> IF Len(after.buf) <= after.pos
                THEN [after EXCEPT !.buf = <<>>, !.pos = 0]
                ELSE after,
     bytes |-> bytes,
     panic |-> after.debug_assertions /\ after.capacity # CAP]

\* read, lines 113-121: to_copy bytes are copied from pos on
Copy(filled, to_copy) ==
    Returned([filled EXCEPT !.pos = @ + to_copy],
             SubSeq(filled.buf, filled.pos + 1, filled.pos + to_copy))

\* Read::read on a buffer of n > 0 bytes
read(r, c, n) ==
    LET filled == IF Len(r.buf) < n THEN FillRows(r, c) ELSE r
    IN  Copy(filled, Min(n, Len(filled.buf) - filled.pos))

\* the sizes of the buffers handed to read
BufSizes == {1, 12, 17, 40}

\* canvases of sides up to MaxSide, all White or with one pixel set, a canvas without
\* columns and a canvas without rows whose header is longer than CAP
InitPpm ==
    /\ pc = "write"
    /\ \/ \E w \in 0..MaxSide, h \in 0..MaxSide, n \in 0..1 :
            \E cs \in [1..n -> (0..(w - 1)) \X (0..(h - 1)) \X PaintColors] :
                output = ApplyCalls(CanvasNew(w, h), cs)
       \/ output = CanvasNew(0, 6)
       \/ output = CanvasNew(10000000, 0)
    /\ canvas = NoCanvas
    /\ given = {}
    /\ reader = None
    /\ emitted = <<>>
    /\ ui = None
    /\ shapes = <<>>
    /\ si = 1
    /\ ei = 1
    /\ nodes = <<>>
    /\ edges = <<>>
    /\ points = NoPoints
    /\ blueprint = <<>>
    /\ stderr = None
    /\ drawn = 0
    /\ calls = <<>>
    /\ NoText

\* ppm.rs 14-16: write_to_file makes the reader
NewReader ==
    /\ pc = "write"
    /\ \E debug_assertions \in BOOLEAN :
            reader' = NewPpmImageReader(output, debug_assertions)
    /\ pc' = "read"
    /\ UNCHANGED <<shapes, si, ei, nodes, edges, points, blueprint, stderr, canvas,
                   drawn, calls, output, textVars, given, emitted, ui>>

\* one call of read on a buffer of n bytes, n being recorded in `given`; a call that
\* returns no byte ends the copy
Read ==
    /\ pc = "read"
    /\ \E n \in BufSizes : \E r \in {read(reader, output, n)} :
            /\ reader' = r.reader
            /\ given' = given \cup {n}
            /\ IF r.panic
               THEN /\ emitted' = emitted
                    /\ pc' = "panic"
               ELSE /\ emitted' = emitted \o r.bytes
                    /\ pc' = IF r.bytes = <<>> THEN "eof" ELSE "read"
    /\ UNCHANGED <<shapes, si, ei, nodes, edges, points, blueprint, stderr, canvas,
                   drawn, calls, output, textVars, ui>>

NextPpm == NewReader \/ Read

SpecPpm == InitPpm /\ [][NextPpm]_vars

\* the pixels of the row y from x on, separated by spaces
RECURSIVE RowText(_, _, _)
RowText(c, x, y) ==
    IF x >= c.width THEN <<>>
    ELSE PixelText(c, x, y) \o (IF x + 1 < c.width THEN <<" ">> ELSE <<>>)
            \o RowText(c, x + 1, y)

\* the lines of the rows from y on
RECURSIVE RowsText(_, _)
RowsText(c, y) ==
    IF y >= c.height THEN <<>> ELSE RowText(c, 0, y) \o <<"\n">> \o RowsText(c, y + 1)

\* the image as text
PpmText(c) == HeaderText(c) \o RowsText(c, 0)

IsPrefix(s, t) == Len(s) <= Len(t) /\ s = SubSeq(t, 1, Len(s))

----------------------------------------------------------------------------
(* The viewer: ZoomLevel and the zoom messages of Blueprint::update *)

\* the largest u8
U8Max == 255

\* a + b and a - b on u8: the overflow panics in a build with debug assertions and
\* wraps in a build without
AddU8(a, b, debug_assertions) ==
    IF a + b <= U8Max THEN [res |-> "ok", value |-> a + b]
    ELSE IF debug_assertions THEN Panicked
    ELSE [res |-> "ok", value |-> (a + b) % (U8Max + 1)]

SubU8(a, b, debug_assertions) ==
    IF a - b >= 0 THEN [res |-> "ok", value |-> a - b]
    ELSE IF debug_assertions THEN Panicked
    ELSE [res |-> "ok", value |-> (a - b) % (U8Max + 1)]

ZoomLevel(num, denum) == [num |-> num, denum |-> denum]

\* Default for ZoomLevel
ZoomDefault == ZoomLevel(1, 1)

Level(z) == [res |-> "ok", level |-> z]

\* ZoomLevel::zoom_in
zoom_in(z, debug_assertions) ==
    IF z.denum = 1
    THEN LET n == AddU8(z.num, 1, debug_assertions)
         IN  IF n.res = "panic" THEN Panicked ELSE Level(ZoomLevel(n.value, z.denum))
    ELSE LET d == SubU8(z.denum, 1, debug_assertions)
         IN  IF d.res = "panic" THEN Panicked ELSE Level(ZoomLevel(z.num, d.value))

\* ZoomLevel::zoom_out
zoom_out(z, debug_assertions) ==
    IF z.num = 1
    THEN LET d == AddU8(z.denum, 1, debug_assertions)
         IN  IF d.res = "panic" THEN Panicked ELSE Level(ZoomLevel(z.num, d.value))
    ELSE LET n == SubU8(z.num, 1, debug_assertions)
         IN  IF n.res = "panic" THEN Panicked ELSE Level(ZoomLevel(n.value, z.denum))

\* Blueprint::new: the translation of a new widget
TranslationDefault == [x |-> 50, y |-> 50]

\* the widget as Blueprint::new leaves it, in either build profile
InitZoom ==
    /\ pc = "view"
    /\ \E debug_assertions \in BOOLEAN :
            ui = [zoom_level |-> ZoomDefault,
                  translation |-> TranslationDefault,
                  debug_assertions |-> debug_assertions]
    /\ reader = None
    /\ emitted = <<>>
    /\ given = None
    /\ output = NoCanvas
    /\ canvas = NoCanvas
    /\ shapes = <<>>
    /\ si = 1
    /\ ei = 1
    /\ nodes = <<>>
    /\ edges = <<>>
    /\ points = NoPoints
    /\ blueprint = <<>>
    /\ stderr = None
    /\ drawn = 0
    /\ calls = <<>>
    /\ NoText

\* update: Message::ZoomIn
ZoomIn ==
    /\ pc = "view"
    /\ LET r == zoom_in(ui.zoom_level, ui.debug_assertions)
       IN  IF r.res = "panic"
           THEN pc' = "panic" /\ ui' = ui
           ELSE pc' = pc /\ ui' = [ui EXCEPT !.zoom_level = r.level]
    /\ UNCHANGED <<shapes, si, ei, nodes, edges, points, blueprint, stderr, canvas,
                   drawn, calls, output, textVars, given, reader, emitted>>

\* update: Message::ZoomOut
ZoomOut ==
    /\ pc = "view"
    /\ LET r == zoom_out(ui.zoom_level, ui.debug_assertions)
       IN  IF r.res = "panic"
           THEN pc' = "panic" /\ ui' = ui
           ELSE pc' = pc /\ ui' = [ui EXCEPT !.zoom_level = r.level]
    /\ UNCHANGED <<shapes, si, ei, nodes, edges, points, blueprint, stderr, canvas,
                   drawn, calls, output, textVars, given, reader, emitted>>

\* update: Message::ZoomReset
ZoomReset ==
    /\ pc = "view"
    /\ ui' = [ui EXCEPT !.zoom_level = ZoomDefault, !.translation = TranslationDefault]
    /\ UNCHANGED <<pc, shapes, si, ei, nodes, edges, points, blueprint, stderr, canvas,
                   drawn, calls, output, textVars, given, reader, emitted>>

NextZoom == ZoomIn \/ ZoomOut \/ ZoomReset

SpecZoom == InitZoom /\ [][NextZoom]_vars

\* zoom_in then zoom_out, and zoom_out then zoom_in, both give z back
RoundTrips(z, debug_assertions) ==
    LET i == zoom_in(z, debug_assertions)
        o == zoom_out(z, debug_assertions)
    IN  /\ i.res = "ok"
        /\ zoom_out(i.level, debug_assertions) = Level(z)
        /\ o.res = "ok"
        /\ zoom_in(o.level, debug_assertions) = Level(z)

\* C19: for every level z reachable from the default 1/1 by zoom_in and zoom_out,
\* zoom_out(zoom_in(z)) = z and zoom_in(zoom_out(z)) = z.
C19_ZoomRoundTrip ==
    pc = "view" => RoundTrips(ui.zoom_level, ui.debug_assertions)

----------------------------------------------------------------------------
(* The coordinates returned by the parser, checked under SpecParse *)

\* the well-formed documents among the source texts, as the blocks they are written from
WellFormedDocs ==
    UNION {{<<[k \in 1..n |-> Written(f[k], <<>>)]>> : f \in [1..n -> CoordChoices]} :
                n \in 0..MaxNodes}
        \cup UNION {{<<[k \in 1..n |-> Written(Absolute(k, 2 * (k % 2), None), f[k])]>> :
                        f \in [1..n -> AttrLists]} : n \in 2..MaxNodes}
        \cup {pre \o <<m>> \o post :
                pre \in OptWellFormedBlocks, m \in {SquareBlock, BlueBlock},
                post \in OptWellFormedBlocks}
        \cup {<<RectangleBlock>>}

\* the texts of the document d among the source texts: its blocks one per line, and a
\* single block without the end of line
DocTexts(d) ==
    {Lines([k \in DOMAIN d |-> BlockText(d[k])])}
        \cup (IF Len(d) = 1 THEN {BlockText(d[1])} ELSE {})

\* the coordinates of the written nodes ns, the first of which is written at the
\* offset `at`, each with the offset it is written at
RECURSIVE LocatedNodes(_, _)
LocatedNodes(ns, at) ==
    IF ns = <<>> THEN <<>>
    ELSE <<[coord |-> Head(ns).coord, start |-> at]>>
            \o LocatedNodes(Tail(ns), at + Len(NodeText(Head(ns))) + 1)

\* the same for the blocks bs written one per line from the offset `at` on
RECURSIVE LocatedBlocks(_, _)
LocatedBlocks(bs, at) ==
    IF bs = <<>> THEN <<>>
    ELSE <<LocatedNodes(Head(bs), at + Len(Spell("shape")) + 3)>>
            \o LocatedBlocks(Tail(bs), at + Len(BlockText(Head(bs))) + 1)

\* every well-formed text with the coordinates and offsets written in it
WellFormedCases ==
    UNION {{[text |-> t, located |-> LocatedBlocks(d, 0)] : t \in DocTexts(d)} :
                d \in WellFormedDocs}

\* the coordinate and the start of every EdgeStart
Coordinates(ss) ==
    [k \in DOMAIN ss |->
        [j \in DOMAIN ss[k] |-> [coord |-> ss[k][j].coord, start |-> ss[k][j].start]]]

\* the starts of the EdgeStarts of all blocks, in the order returned
Starts(ss) == LET f == Flatten(ss) IN [k \in DOMAIN f |-> f[k].start]

Rising(s) == \A k \in 1..(Len(s) - 1) : s[k] < s[k + 1]

\* C20: for a well-formed document the parser reports no error and returns one list
\* per shape block and one EdgeStart per coordinate in document order, Relative for
\* `NUM , NUM [#tag]`, Absolute for `@ NUM , NUM [#tag]`, Reference for `@ #tag`, each
\* with the byte offset of the first token of its coordinate as start, so that the
\* starts rise strictly through the document.
C20_CoordinatesInDocumentOrder ==
    [][pc = "parse" =>
        \A c \in WellFormedCases :
            src = c.text =>
                /\ parser_errors' = 0
                /\ Coordinates(shapes') = c.located
                /\ Rising(Starts(shapes'))]_vars

\* the text of test_parser has been parsed: an Absolute that binds p0 at 8, three
\* Relative at 17, 21 and 25 and the Reference to p0 at 29
C20_Witness ==
    /\ Parsed
    /\ src = RectangleText
    /\ Len(shapes) = 1
    /\ Starts(shapes) = <<8, 17, 21, 25, 29>>
    /\ shapes[1][1].coord = Absolute(0, 0, "p0")
    /\ shapes[1][2].coord = Relative(0, 5, None)
    /\ shapes[1][5].coord = Reference("p0")

----------------------------------------------------------------------------
(* Blueprint::scale, as the viewer calls it with ZoomLevel::scale_factor *)

\* ZoomLevel::scale_factor: num as f32 / denum as f32, kept as the fraction it is the
\* value of; the division is exact in f32 when denum is a power of two
scale_factor(z) == [num |-> z.num, den |-> z.denum]

\* the levels whose factor the f32 holds exactly
ScaleLevels == {ZoomLevel(1, 2), ZoomDefault, ZoomLevel(2, 1)}

\* f64::round of n / d, n >= 0 and d > 0: to the nearest integer, a half away from zero
Round(n, d) == (2 * n + d) \div (2 * d)

\* Point::<usize>::scale: x as f64 and factor as f64 are exact (x < 2^53), so is the
\* product
point_scale(p, factor) ==
    Point(Round(p.x * factor.num, factor.den), Round(p.y * factor.num, factor.den))

\* Edge::scale with the scaled endpoints exchanged
edge_scale_reversed(e, factor) ==
    [from |-> point_scale(e.to, factor),
     to |-> point_scale(e.from, factor),
     attr |-> e.attr]

\* Edge::scale
edge_scale(e, factor) ==
    [from |-> point_scale(e.from, factor),
     to |-> point_scale(e.to, factor),
     attr |-> e.attr]

\* Shape::scale
shape_scale(shape, factor) == [k \in 1..Len(shape) |-> edge_scale(shape[k], factor)]

\* Blueprint::scale
scale(bp, factor) == [k \in 1..Len(bp) |-> shape_scale(bp[k], factor)]

ScaleLayouts == {<<>>, <<0>>, <<1, 1>>}

\* view() on a widget whose raw_blueprint main() has moved to the origin and converted
InitScale ==
    /\ pc = "scale"
    /\ \/ \E l \in ScaleLayouts : \E f \in [1..SumSeq(l) -> PairEdges] :
            blueprint = translate_to_origin(Cut(f, l))
       \/ \E e \in SingleEdges : blueprint = translate_to_origin(<<<<e>>>>)
    /\ given = None
    /\ shapes = <<>>
    /\ si = 1
    /\ ei = 1
    /\ nodes = <<>>
    /\ edges = <<>>
    /\ points = NoPoints
    /\ stderr = None
    /\ canvas = NoCanvas
    /\ drawn = 0
    /\ calls = <<>>
    /\ output = NoCanvas
    /\ NoText
    /\ SidesIdle

\* ui.rs 201: self.raw_blueprint.scale(self.zoom_level.scale_factor())
Scale ==
    /\ pc = "scale"
    /\ \E z \in ScaleLevels :
        /\ given' = [raw_blueprint |-> blueprint, zoom_level |-> z]
        /\ blueprint' = scale(blueprint, scale_factor(z))
    /\ pc' = "scaled"
    /\ UNCHANGED <<shapes, si, ei, nodes, edges, points, stderr, canvas, drawn, calls,
                   output, textVars, sideVars>>

NextScale == Scale

SpecScale == InitScale /\ [][NextScale]_vars

\* C21: scaling a normalized Blueprint by the factor 1.0 returns a Blueprint with the
\* same shapes in the same order, each with the same edges in the same order, every
\* edge with the same endpoints and the same colour.
C21_ScaleByOneIsIdentity ==
    [][(pc = "scale" /\ given'.zoom_level = ZoomDefault) =>
            /\ Len(blueprint') = Len(blueprint)
            /\ \A k \in 1..Len(blueprint) :
                /\ Len(blueprint'[k]) = Len(blueprint[k])
                /\ \A j \in 1..Len(blueprint[k]) :
                    /\ blueprint'[k][j].from = blueprint[k][j].from
                    /\ blueprint'[k][j].to = blueprint[k][j].to
                    /\ color(blueprint'[k][j]) = color(blueprint[k][j])]_vars

\* two different shapes scaled by 1.0, and a sloped edge of a Custom colour scaled by 1.0
C21_Witness ==
    /\ pc = "scaled"
    /\ given.zoom_level = ZoomDefault
    /\ blueprint = given.raw_blueprint
    /\ \/ /\ Len(blueprint) = 2
          /\ blueprint[1] # blueprint[2]
          /\ blueprint[1][1].from # blueprint[1][1].to
          /\ blueprint[2][1].to = Point(2, 2)
       \/ /\ blueprint = <<<<[from |-> Point(0, 3), to |-> Point(4, 0),
                              attr |-> <<Custom(10, 20, 30, 40)>>]>>>>

----------------------------------------------------------------------------
(* The chain of edges the resolver builds, checked under Spec *)

\* every edge of the shape starts where the edge before it ends
Chained(shape) == \A j \in 1..Len(shape) - 1 : shape[j].to = shape[j + 1].from

\* C22: in the edges of the block being resolved and in every Shape the resolver has
\* pushed, the `to` of an edge equals the `from` of the edge after it, whatever the mix
\* of Absolute, Relative and Reference coordinates, a reference to a tag bound again
\* within the shape included.
C22_ConsecutiveEdgesShareEndpoint ==
    pc \in {"resolve", "translate", "exit"} =>
        /\ Chained(edges)
        /\ \A k \in 1..Len(blueprint) : Chained(blueprint[k])

\* the block whose tag is bound twice and then referred to by a coordinate two edges
\* share: the reference resolved to the second binding for both of them
C22_Witness ==
    /\ pc = "translate"
    /\ shapes = ExampleRebound
    /\ Len(blueprint) = 1
    /\ Len(blueprint[1]) = 3
    /\ blueprint[1][1].from = Point(0, 0)
    /\ blueprint[1][2].from = Point(1, 2)
    /\ blueprint[1][2].to = Point(1, 2)
    /\ blueprint[1][3].from = Point(1, 2)
    /\ blueprint[1][3].to = Point(4, 2)

----------------------------------------------------------------------------
(* Tags bound more than once, checked under Spec *)

\* the j-th coordinate of block b1 comes before the k-th of block b in the document
Precedes(b1, j, b, k) == b1 < b \/ (b1 = b /\ j < k)

\* the coordinates before the k-th of block b that carry the tag t
CarriersBefore(b, k, t) ==
    {c \in UNION {{<<b1, j>> : j \in 1..Len(shapes[b1])} : b1 \in 1..b} :
        Precedes(c[1], c[2], b, k) /\ Carries(c[1], c[2], t)}

\* the last of the coordinates of S in document order
MostRecent(S) ==
    CHOOSE c \in S : \A d \in S : d = c \/ Precedes(d[1], d[2], c[1], c[2])

\* C23: when several coordinates carry the same tag, a Reference resolves to the point of
\* the most recent of them that precedes it in document order, the earlier bindings
\* being overwritten (stated for carriers in blocks of two coordinates or more, the
\* ones whose resolved point the blueprint holds), and the resolver does not exit on a
\* tag that is bound.
C23_LastBindingWins ==
    /\ BeforeTranslate =>
        \A b \in PushedBlocks :
            Len(shapes[b]) >= 2 =>
                \A k \in 1..Len(shapes[b]) :
                    (CoordAt(b, k).kind = "Reference"
                        /\ CarriersBefore(b, k, CoordAt(b, k).tag) # {}) =>
                        LET c == MostRecent(CarriersBefore(b, k, CoordAt(b, k).tag))
                        IN  Len(shapes[c[1]]) >= 2 =>
                                ResolvedAt(b, k) = ResolvedAt(c[1], c[2])
    /\ pc = "exit" => stderr \notin DOMAIN points

----------------------------------------------------------------------------
(* The order Blueprint::draw and Shape::draw paint in *)

DrawColors == {Black, Custom(10, 20, 30, 40), Transparent}

\* the edges of the small grid in the colours cs
OrderEdges(cs) ==
    {[from |-> p, to |-> q, attr |-> <<c>>] :
        p \in PointsIn(0, MaxCoord), q \in PointsIn(0, MaxCoord), c \in cs}

\* an edge across the small grid, in a colour of its own
Diagonal == [from |-> Point(0, 0), to |-> Point(1, 1), attr |-> <<Custom(1, 2, 3, 4)>>]

\* three edges in two shapes
InitDrawOrder ==
    /\ shapes = <<>>
    /\ pc = "translate"
    /\ si = 1
    /\ ei = 1
    /\ nodes = <<>>
    /\ edges = <<>>
    /\ points = NoPoints
    /\ \E e1 \in OrderEdges(OpaqueColors), e2 \in OrderEdges(DrawColors) :
        blueprint = <<<<Diagonal>>, <<e1, e2>>>>
    /\ stderr = None
    /\ canvas = NoCanvas
    /\ drawn = 0
    /\ calls = <<>>
    /\ output = NoCanvas
    /\ OthersIdle

SpecDrawOrder == InitDrawOrder /\ [][NextRender]_vars

\* Edge::draw of e sets the pixel (x, y)
Covers(e, x, y) ==
    LET cs == DrawCalls(e)
    IN  \E k \in 1..Len(cs) : cs[k][1] = x /\ cs[k][2] = y

\* the edges drawn so far, in the order of the document, that set the pixel (x, y)
Covering(x, y) == {i \in 1..drawn : Covers(Flatten(blueprint)[i], x, y)}

\* C24: Blueprint::draw draws the shapes in insertion order and Shape::draw the edges in
\* insertion order: after any number of edges drawn, every pixel set by at least one
\* non-transparent edge has the colour of the last such edge in document order, and
\* every other pixel is White as Canvas::new left it.
C24_LastEdgeInDocumentOrderWins ==
    pc \in {"draw", "done"} =>
        \A x \in 0..(canvas.width - 1), y \in 0..(canvas.height - 1) :
            CanvasGet(canvas, x, y) =
                IF Covering(x, y) = {} THEN White
                ELSE color(Flatten(blueprint)[Greatest(Covering(x, y))])

\* three edges of three colours in two shapes, all through the pixel (0, 0), which has
\* the colour of the third; the pixel (1, 1) has the colour of the first
C24_Witness ==
    /\ pc = "done"
    /\ drawn = 3
    /\ Len(blueprint) = 2
    /\ color(blueprint[2][1]) = Black
    /\ color(blueprint[2][2]) = Custom(10, 20, 30, 40)
    /\ Covering(0, 0) = {1, 2, 3}
    /\ Covering(1, 1) = {1}
    /\ CanvasGet(canvas, 0, 0) = Custom(10, 20, 30, 40)
    /\ CanvasGet(canvas, 1, 1) = Custom(1, 2, 3, 4)

----------------------------------------------------------------------------
(* The bounding box, checked under SpecRender *)

Reverse(s) == [k \in 1..Len(s) |-> s[Len(s) + 1 - k]]

\* the shapes in the opposite order, the edges of each in the opposite order
Reordered(bp) == Reverse([k \in 1..Len(bp) |-> Reverse(bp[k])])

\* bp with an empty Shape put in after its first i shapes
WithEmptyShape(bp, i) == SubSeq(bp, 1, i) \o <<<<>>>> \o SubSeq(bp, i + 1, Len(bp))

\* <<component-wise minimum, component-wise maximum>> of the points of P
Box(P) ==
    <<Point(Least({p.x : p \in P}), Least({p.y : p \in P})),
      Point(Greatest({p.x : p \in P}), Greatest({p.y : p \in P}))>>

\* the blueprint is the Blueprint<i32> of main(), before and after translate_to_origin
Signed == pc \in {"translate", "convert"}

\* C25: the boundaries of a Blueprint, and of each of its Shapes, are the component-wise
\* minimum and maximum over the endpoints of all its edges, whatever the order of the
\* shapes and of the edges; with no edge they are the pair (Point::MAX, Point::MIN),
\* and an empty Shape folded in anywhere leaves them as they are.  For usize the
\* bottom-right corner is the maximum, and Point::MIN = (0, 0) with no edge.
C25_BoundingBoxIsMinMaxFold ==
    /\ Signed =>
        /\ boundaries(blueprint) =
                IF Endpoints(blueprint) = {} THEN <<PointI32Max, PointI32Min>>
                ELSE Box(Endpoints(blueprint))
        /\ \A k \in 1..Len(blueprint) :
                ShapeBoundaries(blueprint[k]) =
                    IF blueprint[k] = <<>> THEN <<PointI32Max, PointI32Min>>
                    ELSE Box(Endpoints(<<blueprint[k]>>))
        /\ boundaries(Reordered(blueprint)) = boundaries(blueprint)
        /\ \A i \in 0..Len(blueprint) :
                boundaries(WithEmptyShape(blueprint, i)) = boundaries(blueprint)
    /\ pc \in {"canvas", "draw"} =>
        /\ boundaries_usize_1(blueprint) =
                IF Endpoints(blueprint) = {} THEN PointUsizeMin
                ELSE Box(Endpoints(blueprint))[2]
        /\ boundaries_usize_1(Reordered(blueprint)) = boundaries_usize_1(blueprint)

\* translate_to_origin has folded a Blueprint of an empty Shape and a Shape of one
\* edge, no endpoint of which is a corner of the box; and a Blueprint without an edge
C25_Witness ==
    /\ pc = "convert"
    /\ Len(blueprint) = 2
    /\ blueprint[1] = <<>>
    /\ blueprint[2] = <<EdgeNew(0, 2, 2, 0, Black)>>
    /\ boundaries(blueprint) = <<Point(0, 0), Point(2, 2)>>
    /\ boundaries(<<blueprint[1]>>) = <<PointI32Max, PointI32Min>>

----------------------------------------------------------------------------
(* The staging buffer of the PpmImageReader, checked under SpecPpm *)

\* read has been called at least once
AfterRead == pc \in {"read", "eof", "panic"} /\ given # {}

\* C26: after every call of read the capacity of the staging buffer is still CAP, so the
\* debug assertion at the end of read holds, and the buffered text, header included,
\* is never longer than CAP, whatever the dimensions of the canvas and the colours.
C26_CapacityStaysCAP ==
    AfterRead =>
        /\ pc # "panic"
        /\ reader.capacity = CAP
        /\ Len(reader.buf) <= CAP

----------------------------------------------------------------------------
(* The progress of the reads, checked under SpecPpm *)

\* C27: every call of read on a non-empty buffer returns at least one byte as long as
\* part of the text (the header, then every pixel once in row-major order with the
\* newline of each row) has not been returned, and no byte on every call after that,
\* so that copying the stream ends with the whole text copied.
C27_ReadReturnsBytesUntilTheEnd ==
    [][pc = "read" =>
        /\ pc' \in {"read", "eof"}
        /\ IsPrefix(emitted', PpmText(output))
        /\ emitted # PpmText(output) => Len(emitted') > Len(emitted)
        /\ emitted = PpmText(output) => pc' = "eof"
        /\ pc' = "eof" =>
            /\ emitted' = PpmText(output)
            /\ \A n \in BufSizes : read(reader', output, n).bytes = <<>>]_vars

----------------------------------------------------------------------------
(* The range of the zoom level, checked under SpecZoom *)

\* C28: after any sequence of zoom_in and zoom_out from the default level, num >= 1,
\* denum >= 1 and one of them is 1, and no step overflows or underflows the u8 fields:
\* no step panics and none wraps.
C28_ZoomLevelInRange ==
    /\ pc # "panic"
    /\ pc = "view" =>
        /\ ui.zoom_level.num >= 1
        /\ ui.zoom_level.denum >= 1
        /\ ui.zoom_level.num = 1 \/ ui.zoom_level.denum = 1
        /\ zoom_in(ui.zoom_level, TRUE).res = "ok"
        /\ zoom_out(ui.zoom_level, TRUE).res = "ok"

----------------------------------------------------------------------------
(* The viewer: the mouse and the translation in Blueprint::update.  The f32 *)
(* coordinates of iced's Point and Vector are whole numbers here; Option    *)
(* values are <<>> for None and <<v>> for Some(v).                          *)

\* the cursor is moved over the points (0, 0) .. (MaxMouse, MaxMouse)
MaxMouse == 1
\* the translation is followed up to MaxPan away from the one of a new widget
MaxPan == 1

MousePoints == PointsIn(0, MaxMouse)
MouseModes == {"Select", "Move"}

Vector(x, y) == [x |-> x, y |-> y]

InPan(t) ==
    /\ Abs(t.x - TranslationDefault.x) <= MaxPan
    /\ Abs(t.y - TranslationDefault.y) <= MaxPan

\* unwrap_or
unwrap_or(opt, default) == IF opt = <<>> THEN default ELSE opt[1]

\* the arm of CursorMoved moving the translation whatever the mouse mode
cursor_moved_in_any_mode(u, point) ==
    LET v == [u EXCEPT !.mouse_position = point]
    IN  IF v.fixed_translation # <<>>
        THEN [v EXCEPT !.translation =
                Vector(v.fixed_translation[1].x + (v.mouse_position.x
                            - unwrap_or(v.fixed_position, v.mouse_position).x),
                       v.fixed_translation[1].y + (v.mouse_position.y
                            - unwrap_or(v.fixed_position, v.mouse_position).y))]
        ELSE v

\* update: the arm of Message::CursorMoved(point)
cursor_moved(u, point) ==
    LET v == [u EXCEPT !.mouse_position = point]
    IN  IF v.mouse_mode = "Move" /\ v.fixed_translation # <<>>
        THEN [v EXCEPT !.translation =
                Vector(v.fixed_translation[1].x + (v.mouse_position.x
                            - unwrap_or(v.fixed_position, v.mouse_position).x),
                       v.fixed_translation[1].y + (v.mouse_position.y
                            - unwrap_or(v.fixed_position, v.mouse_position).y))]
        ELSE v

\* the widget as Blueprint::new leaves it
InitUi ==
    /\ pc = "view"
    /\ ui = [zoom_level |-> ZoomDefault,
             translation |-> TranslationDefault,
             fixed_translation |-> <<>>,
             mouse_position |-> Point(0, 0),
             mouse_mode |-> "Select",
             fixed_position |-> <<>>,
             debug_assertions |-> FALSE]
    /\ reader = None
    /\ emitted = <<>>
    /\ given = None
    /\ output = NoCanvas
    /\ canvas = NoCanvas
    /\ shapes = <<>>
    /\ si = 1
    /\ ei = 1
    /\ nodes = <<>>
    /\ edges = <<>>
    /\ points = NoPoints
    /\ blueprint = <<>>
    /\ stderr = None
    /\ drawn = 0
    /\ calls = <<>>
    /\ NoText

\* nothing but the widget changes
OnlyUi ==
    UNCHANGED <<pc, shapes, si, ei, nodes, edges, points, blueprint, stderr, canvas,
                drawn, calls, output, textVars, given, reader, emitted>>

\* update: Message::TranslateUp, TranslateLeft, TranslateDown, TranslateRight
Translate ==
    /\ pc = "view"
    /\ \E d \in {Vector(0, -1), Vector(-1, 0), Vector(0, 1), Vector(1, 0)} :
        /\ ui' = [ui EXCEPT !.translation = Vector(@.x + d.x, @.y + d.y)]
        /\ InPan(ui'.translation)
    /\ OnlyUi

\* update: Message::CursorMoved
CursorMoved ==
    /\ pc = "view"
    /\ \E point \in MousePoints :
        /\ ui' = cursor_moved(ui, point)
        /\ InPan(ui'.translation)
    /\ OnlyUi

\* update: Message::ChangeMouseMode
ChangeMouseMode ==
    /\ pc = "view"
    /\ \E mode \in MouseModes : ui' = [ui EXCEPT !.mouse_mode = mode]
    /\ OnlyUi

\* update: Message::StorePosition
StorePosition ==
    /\ pc = "view"
    /\ ui' = [ui EXCEPT !.fixed_translation = <<ui.translation>>,
                        !.fixed_position = <<ui.mouse_position>>]
    /\ OnlyUi

\* update: Message::DropPosition
DropPosition ==
    /\ pc = "view"
    /\ ui' = [ui EXCEPT !.fixed_translation = <<>>, !.fixed_position = <<>>]
    /\ OnlyUi

NextUi ==
    \/ ZoomReset
    \/ Translate
    \/ CursorMoved
    \/ ChangeMouseMode
    \/ StorePosition
    \/ DropPosition

SpecUi == InitUi /\ [][NextUi]_vars

\* C29: in every reachable state of the widget fixed_translation and fixed_position are
\* both set or both unset; CursorMoved(p) always sets mouse_position to p, and it
\* changes the translation only when the mouse mode is Move and an anchor is stored,
\* the translation becoming fixed_translation + (p - fixed_position); it changes no
\* other field.
C29_AnchorPairAndCursorMoved ==
    pc = "view" =>
        /\ (ui.fixed_translation = <<>>) <=> (ui.fixed_position = <<>>)
        /\ \A p \in MousePoints :
            LET v == cursor_moved(ui, p)
            IN  /\ v.mouse_position = p
                /\ IF ui.mouse_mode = "Move" /\ ui.fixed_translation # <<>>
                   THEN /\ ui.fixed_position # <<>>
                        /\ v.translation =
                            Vector(ui.fixed_translation[1].x + (p.x - ui.fixed_position[1].x),
                                   ui.fixed_translation[1].y + (p.y - ui.fixed_position[1].y))
                   ELSE v.translation = ui.translation
                /\ v = [ui EXCEPT !.mouse_position = v.mouse_position,
                                  !.translation = v.translation]

\* the anchor was stored at (1, 0) with the translation one step to the right, and in
\* the mode Move the cursor has been moved to (0, 1): the translation has followed it
C29_Witness ==
    /\ pc = "view"
    /\ ui.mouse_mode = "Move"
    /\ ui.fixed_translation = <<Vector(51, 50)>>
    /\ ui.fixed_position = <<Point(1, 0)>>
    /\ ui.mouse_position = Point(0, 1)
    /\ ui.translation = Vector(50, 51)

----------------------------------------------------------------------------
(* An edge and the same edge drawn from its other end *)

\* the edge from e.to to e.from, of the same colour
Reversed(e) == [from |-> e.to, to |-> e.from, attr |-> e.attr]

\* a shape of an edge of the larger grid followed by the edge from its other end
InitReversed ==
    /\ shapes = <<>>
    /\ pc = "translate"
    /\ si = 1
    /\ ei = 1
    /\ nodes = <<>>
    /\ edges = <<>>
    /\ points = NoPoints
    /\ \E e \in SingleEdges : blueprint = <<<<e, Reversed(e)>>>>
    /\ stderr = None
    /\ canvas = NoCanvas
    /\ drawn = 0
    /\ calls = <<>>
    /\ output = NoCanvas
    /\ OthersIdle

SpecReversed == InitReversed /\ [][NextRender]_vars

\* the pixels the calls cs set
PixelsOf(cs) == {<<cs[k][1], cs[k][2]>> : k \in 1..Len(cs)}

\* C30: Edge::draw of the edge from B to A sets exactly the pixels that Edge::draw of the
\* edge from A to B of the same colour has set (the slope product being exact before
\* the truncation), so drawing it on the canvas the first one was drawn on changes
\* nothing, for every pair of endpoints A and B.
C30_ReversedEdgeSetsSamePixels ==
    [][(pc = "draw" /\ drawn = 1 /\ blueprint = <<<<LastDrawn, NextDrawn>>>>
            /\ NextDrawn = Reversed(LastDrawn)) =>
            /\ pc' = "draw"
            /\ PixelsOf(calls') = PixelsOf(calls)
            /\ canvas' = canvas]_vars

\* the edge from (0, 0) to (4, 3) and then the edge from (4, 3) to (0, 0) have been
\* drawn in Black: five pixels each, (2, 1) among them
C30_Witness ==
    /\ pc = "draw"
    /\ drawn = 2
    /\ blueprint = <<<<EdgeNew(0, 0, 4, 3, Black), EdgeNew(4, 3, 0, 0, Black)>>>>
    /\ PixelsOf(calls) = {<<0, 0>>, <<1, 0>>, <<2, 1>>, <<3, 2>>, <<4, 3>>}
    /\ CanvasGet(canvas, 2, 1) = Black
    /\ Cardinality(DOMAIN canvas.pixels) = 5

====
